---- MODULE Spec2Model ----
(***************************************************************************)
(* Model of the invalidation endpoint, src/app/api/revalidate/route.ts:    *)
(* the in-memory rate limiter, the two authentication modes, body parsing  *)
(* and validation, the contentType -> cache tag table and the response.    *)
(*                                                                         *)
(* Strings the code inspects character by character (contentType) are      *)
(* sequences of one-character strings; everything else is a TLA+ string.   *)
(***************************************************************************)
EXTENDS Integers, Sequences, FiniteSets, TLC

VARIABLES
  now,          \* Date.now(), in milliseconds since the process started
  requestLog,   \* the module-level array requestLog
  env,          \* process.env.WORDPRESS_WEBHOOK_SECRET
  req,          \* the request handled last
  resp,         \* the response returned for it (status 0: none handled yet)
  calls,        \* the revalidateTag / revalidatePath calls made for it, in order
  admitted,     \* history: timestamps of the requests let past the limiter
                \* during the last RATE_LIMIT_WINDOW_MS milliseconds
  repeated,     \* history: the request handled last equals the one before it
  handledAt,    \* history: the time at which the last request was handled
  fault,        \* the cache call that threw while the last request was
                \* handled, had it been reached (0: none throws)
  wordpressUrl, \* process.env.WORDPRESS_URL
  backend,      \* how the backend answers: one reply per kind of request
  op,           \* the data-layer operation called last, with its arguments
  ret,          \* what it returned or threw
  net,          \* the network requests it issued, in order
  taxonomyLabelCache,  \* the module-level taxonomyLabelCache
  typesMemo,    \* what cache() holds for getCustomPostTypes in this render
  fetchCache,   \* the fetch cache entry of the content types query
  queries,      \* history: the content types queries that reached the backend
  served,       \* history: where the last getCustomPostTypes() got its list
  frames,       \* the calls in progress: where each one stands and what it holds
  inFlight,     \* the requests sent to the backend and not yet answered
  assigns       \* history: the assignments made to taxonomyLabelCache

webhookVars == <<now, requestLog, env, req, resp, calls, admitted, repeated,
                 handledAt, fault>>
dataVars == <<wordpressUrl, backend, op, ret, net, taxonomyLabelCache>>
cacheVars == <<typesMemo, fetchCache, queries, served>>
taskVars == <<frames, inFlight, assigns>>
vars == <<webhookVars, dataVars, cacheVars, taskVars>>

\* the calls that can be in progress at once
MaxCallers == 2
Callers == 1..MaxCallers

\* a call not started, and no call in progress
NoFrame == [fn |-> "", pc |-> "idle"]
NoTasks ==
  /\ frames = [i \in Callers |-> NoFrame]
  /\ inFlight = {}
  /\ assigns = 0

----------------------------------------------------------------------------
(* Program constants and model bounds *)

RATE_LIMIT_WINDOW_MS == 60000
RATE_LIMIT_MAX == 30

\* the clock stops advancing after this many windows
MaxWindows == 1

----------------------------------------------------------------------------
(* JavaScript values as they come out of JSON.parse *)

Undefined == [t |-> "undefined", n |-> 0, s |-> <<>>]
JNull == [t |-> "null", n |-> 0, s |-> <<>>]
JNum(k) == [t |-> "number", n |-> k, s |-> <<>>]
JStr(chars) == [t |-> "string", n |-> 0, s |-> chars]
JArr == [t |-> "array", n |-> 0, s |-> <<>>]

RECURSIVE Join(_)
\* the string made of the characters of a character sequence
Join(chars) == IF chars = <<>> THEN "" ELSE Head(chars) \o Join(Tail(chars))

\* ToBoolean: what `!x` and `if (x)` test
Truthy(v) ==
  CASE v.t = "number" -> v.n # 0
    [] v.t = "string" -> v.s # <<>>
    [] v.t = "array" -> TRUE
    [] v.t = "object" -> TRUE
    [] v.t = "boolean" -> v.n = 1
    [] OTHER -> FALSE

\* typeof v === "string"
IsString(v) == v.t = "string"

\* ToString, as a template literal `${v}` applies it
TemplateString(v) ==
  CASE v.t = "number" -> ToString(v.n)
    [] v.t = "string" -> Join(v.s)
    [] v.t = "array" -> ""
    [] v.t = "null" -> "null"
    [] OTHER -> "undefined"

----------------------------------------------------------------------------
(* Request bodies: the structure of the raw text, and the text itself *)

InvalidJson == [kind |-> "invalid", v |-> Undefined, ct |-> Undefined, id |-> Undefined]
Scalar(v) == [kind |-> "value", v |-> v, ct |-> Undefined, id |-> Undefined]
Obj(ct, id) == [kind |-> "object", v |-> Undefined, ct |-> ct, id |-> id]

\* the JSON text of a value
ValueText(v) ==
  CASE v.t = "number" -> ToString(v.n)
    [] v.t = "string" -> "\"" \o Join(v.s) \o "\""
    [] v.t = "array" -> "[]"
    [] OTHER -> "null"

\* the raw body as sent on the wire (request.text())
RawText(body) ==
  CASE body.kind = "invalid" -> "{contentType:"
    [] body.kind = "value" -> ValueText(body.v)
    [] OTHER ->
       "{"
       \o (IF body.ct.t = "undefined" THEN ""
           ELSE "\"contentType\":" \o ValueText(body.ct))
       \o (IF body.ct.t # "undefined" /\ body.id.t # "undefined" THEN "," ELSE "")
       \o (IF body.id.t = "undefined" THEN ""
           ELSE "\"contentId\":" \o ValueText(body.id))
       \o "}"

\* JSON.parse(rawBody) throws
ParseThrows(body) == body.kind = "invalid"

\* const { contentType, contentId } = requestBody throws (null has no properties)
DestructureThrows(body) == body.kind = "value" /\ body.v.t = "null"

\* requestBody.contentType / requestBody.contentId: a property of an object,
\* undefined on a number, a string or an array
ContentTypeOf(body) == IF body.kind = "object" THEN body.ct ELSE Undefined
ContentIdOf(body) == IF body.kind = "object" THEN body.id ELSE Undefined

----------------------------------------------------------------------------
(* Headers and the environment variable: a string, or absent *)

NoHdr == [present |-> FALSE, val |-> ""]
Hdr(s) == [present |-> TRUE, val |-> s]

\* mutant: only undefined is refused, the empty string passes
HdrTruthy_PresentOnly(h) == h.present

\* `!h` is false: the header is present and not the empty string
HdrTruthy(h) == h.present /\ h.val # ""

----------------------------------------------------------------------------
(* Rate limiting *)

RECURSIVE Prune(_, _)
\* while (requestLog.length > 0 && requestLog[0] < now - WINDOW) requestLog.shift()
Prune(log, t) ==
  IF Len(log) > 0 /\ log[1] < t - RATE_LIMIT_WINDOW_MS
  THEN Prune(Tail(log), t)
  ELSE log

\* mutant: the limit test written > instead of >=
isRateLimited_OffByOne(log, t) ==
  LET pruned == Prune(log, t)
  IN IF Len(pruned) > RATE_LIMIT_MAX
     THEN [limited |-> TRUE, log |-> pruned]
     ELSE [limited |-> FALSE, log |-> Append(pruned, t)]

\* isRateLimited(): the value returned and the log left behind
isRateLimited(log, t) ==
  LET pruned == Prune(log, t)
  IN IF Len(pruned) >= RATE_LIMIT_MAX
     THEN [limited |-> TRUE, log |-> pruned]
     ELSE [limited |-> FALSE, log |-> Append(pruned, t)]

----------------------------------------------------------------------------
(* Authentication *)

\* createHmac("sha256", secret).update(body).digest("hex"): an injective
\* function of the key and the text (no collisions)
Hmac(secret, text) == "hmac-sha256[" \o secret \o "][" \o text \o "]"

\* timingSafeEqual inside try/catch: it throws on buffers of different
\* length, and the catch returns false
TimingSafeEqualOrFalse(a, b) == IF Len(a) # Len(b) THEN FALSE ELSE a = b

\* mutant: only the lengths of the two buffers are compared
verifySignature_LengthOnly(text, signature, secret) ==
  IF ~HdrTruthy(signature) THEN FALSE
  ELSE Len(signature.val) = Len(Hmac(secret, text))

verifySignature(text, signature, secret) ==
  IF ~HdrTruthy(signature) THEN FALSE
  ELSE TimingSafeEqualOrFalse(signature.val, Hmac(secret, text))

verifySecret(headerSecret, envSecret) ==
  IF ~HdrTruthy(headerSecret) \/ envSecret = "" THEN FALSE
  ELSE TimingSafeEqualOrFalse(headerSecret.val, envSecret)

\* const isValid = hmacSignature ? verifySignature(...) : verifySecret(...)
isValid(r, secret) ==
  IF HdrTruthy(r.sig)
  THEN verifySignature(RawText(r.body), r.sig, secret)
  ELSE verifySecret(r.secret, secret)

----------------------------------------------------------------------------
(* Body validation *)

LOWER == {"a","b","c","d","e","f","g","h","i","j","k","l","m",
          "n","o","p","q","r","s","t","u","v","w","x","y","z"}
UPPER == {"A","B","C","D","E","F","G","H","I","J","K","L","M",
          "N","O","P","Q","R","S","T","U","V","W","X","Y","Z"}
DIGITS == {"0","1","2","3","4","5","6","7","8","9"}

\* mutant: the pattern lost its anchors and its +, one good character is enough
FormatOk_Unanchored(chars) ==
  \E k \in 1..Len(chars) : chars[k] \in LOWER \cup UPPER \cup DIGITS \cup {"_", "-"}

\* /^[a-z0-9_-]+$/i.test(contentType): the i flag lets A-Z through as well
FormatOk(chars) ==
  /\ Len(chars) > 0
  /\ \A k \in 1..Len(chars) : chars[k] \in LOWER \cup UPPER \cup DIGITS \cup {"_", "-"}

----------------------------------------------------------------------------
(* Tag mapping: the cache calls of an accepted request, in program order *)

TagCall(tag) == [fn |-> "revalidateTag", arg |-> tag, kind |-> ""]
PathCall == [fn |-> "revalidatePath", arg |-> "/", kind |-> "layout"]

\* mutant: the author branch forgets its alias "user", which falls through to
\* the generic branch
TypeTags_UserGeneric(ct, id) ==
  LET c == Join(ct.s)
      i == TemplateString(id)
      withId(tags) == IF Truthy(id) THEN tags ELSE <<>>
  IN CASE c = "post" ->
            <<"posts">> \o withId(<<"post-" \o i>>) \o <<"posts-page-1">>
       [] c = "category" ->
            <<"categories">> \o withId(<<"posts-category-" \o i, "category-" \o i>>)
       [] c = "tag" ->
            <<"tags">> \o withId(<<"posts-tag-" \o i, "tag-" \o i>>)
       [] c = "author" ->
            <<"authors">> \o withId(<<"posts-author-" \o i, "author-" \o i>>)
       [] c \in {"options", "options-page"} ->
            <<"options-pages">> \o withId(<<"options-page-" \o i>>)
       [] OTHER ->
            <<"cpt-" \o c>> \o withId(<<"cpt-" \o c \o "-" \o i>>)

\* the if / else-if chain on contentType
TypeTags(ct, id) ==
  LET c == Join(ct.s)
      i == TemplateString(id)
      withId(tags) == IF Truthy(id) THEN tags ELSE <<>>
  IN CASE c = "post" ->
            <<"posts">> \o withId(<<"post-" \o i>>) \o <<"posts-page-1">>
       [] c = "category" ->
            <<"categories">> \o withId(<<"posts-category-" \o i, "category-" \o i>>)
       [] c = "tag" ->
            <<"tags">> \o withId(<<"posts-tag-" \o i, "tag-" \o i>>)
       [] c \in {"author", "user"} ->
            <<"authors">> \o withId(<<"posts-author-" \o i, "author-" \o i>>)
       [] c \in {"options", "options-page"} ->
            <<"options-pages">> \o withId(<<"options-page-" \o i>>)
       [] OTHER ->
            <<"cpt-" \o c>> \o withId(<<"cpt-" \o c \o "-" \o i>>)

\* mutant: the layout is revalidated first, the tags after it
CacheCalls_PathFirst(ct, id) ==
  LET tags == <<"wordpress">> \o TypeTags(ct, id) \o <<"content-types">>
  IN <<PathCall>> \o [k \in 1..Len(tags) |-> TagCall(tags[k])]

\* everything the inner try block calls, in order
CacheCalls(ct, id) ==
  LET tags == <<"wordpress">> \o TypeTags(ct, id) \o <<"content-types">>
  IN [k \in 1..Len(tags) |-> TagCall(tags[k])] \o <<PathCall>>

----------------------------------------------------------------------------
(* Responses *)

Response(status, message, retryAfter, revalidated, timestamp) ==
  [status |-> status, message |-> message, retryAfter |-> retryAfter,
   revalidated |-> revalidated, timestamp |-> timestamp]

NoResponse == Response(0, "", "", "absent", FALSE)
TooManyRequests == Response(429, "Too many requests", "60", "absent", FALSE)
ServerMisconfigured == Response(500, "Server misconfiguration", "", "absent", FALSE)
Unauthorized == Response(401, "Unauthorized", "", "absent", FALSE)
InvalidJsonBody == Response(400, "Invalid JSON body", "", "absent", FALSE)
MissingContentType == Response(400, "Missing content type", "", "absent", FALSE)
InvalidFormat == Response(400, "Invalid content type format", "", "absent", FALSE)
InternalServerError == Response(500, "Internal server error", "", "absent", TRUE)
FailedToRevalidate == Response(500, "Failed to revalidate site", "", "false", TRUE)
Revalidated(ct) ==
  Response(200, "Revalidated " \o Join(ct.s) \o " and related content", "", "true", TRUE)

----------------------------------------------------------------------------
(* The handler *)

Outcome(log, response, made) == [log |-> log, resp |-> response, calls |-> made]

\* mutant: the layout revalidation is made after the inner try block, so
\* that its throw reaches the outer catch
Revalidate_LayoutUnguarded(log, ct, id, failAt) ==
  LET all == CacheCalls(ct, id)
  IN IF failAt \in 1..(Len(all) - 1)
     THEN Outcome(log, FailedToRevalidate, SubSeq(all, 1, failAt - 1))
     ELSE IF failAt = Len(all)
          THEN Outcome(log, InternalServerError, SubSeq(all, 1, failAt - 1))
          ELSE Outcome(log, Revalidated(ct), all)

\* mutant: a request arriving in the same millisecond as the one before it is
\* taken for a duplicate delivery and answered without evicting anything
Revalidate_Debounced(log, ct, id, failAt) ==
  IF Len(log) > 1 /\ log[Len(log) - 1] = log[Len(log)]
  THEN Outcome(log, Revalidated(ct), <<>>)
  ELSE Outcome(log, Revalidated(ct), CacheCalls(ct, id))

\* the inner try / catch: cache call number failAt throws (0: none does)
Revalidate(log, ct, id, failAt) ==
  LET all == CacheCalls(ct, id)
  IN IF failAt \in 1..Len(all)
     THEN Outcome(log, FailedToRevalidate, SubSeq(all, 1, failAt - 1))
     ELSE Outcome(log, Revalidated(ct), all)

\* mutant: the limiter's verdict is looked at after the secret and the
\* authentication have been checked
POSTResult_AuthFirst(log, t, secretEnv, r, failAt) ==
  LET rl == isRateLimited(log, t)
      ct == ContentTypeOf(r.body)
      id == ContentIdOf(r.body)
  IN IF ~HdrTruthy(secretEnv) THEN Outcome(rl.log, ServerMisconfigured, <<>>)
     ELSE IF ~isValid(r, secretEnv.val) THEN Outcome(rl.log, Unauthorized, <<>>)
     ELSE IF rl.limited THEN Outcome(rl.log, TooManyRequests, <<>>)
     ELSE IF ParseThrows(r.body) THEN Outcome(rl.log, InvalidJsonBody, <<>>)
     ELSE IF DestructureThrows(r.body) THEN Outcome(rl.log, InternalServerError, <<>>)
     ELSE IF ~Truthy(ct) \/ ~IsString(ct) THEN Outcome(rl.log, MissingContentType, <<>>)
     ELSE IF ~FormatOk(ct.s) THEN Outcome(rl.log, InvalidFormat, <<>>)
     ELSE Revalidate(rl.log, ct, id, failAt)

\* mutant: the body is parsed and validated before the request is
\* authenticated
POSTResult_ParseFirst(log, t, secretEnv, r, failAt) ==
  LET rl == isRateLimited(log, t)
      ct == ContentTypeOf(r.body)
      id == ContentIdOf(r.body)
  IN IF rl.limited THEN Outcome(rl.log, TooManyRequests, <<>>)
     ELSE IF ~HdrTruthy(secretEnv) THEN Outcome(rl.log, ServerMisconfigured, <<>>)
     ELSE IF ParseThrows(r.body) THEN Outcome(rl.log, InvalidJsonBody, <<>>)
     ELSE IF DestructureThrows(r.body) THEN Outcome(rl.log, InternalServerError, <<>>)
     ELSE IF ~Truthy(ct) \/ ~IsString(ct) THEN Outcome(rl.log, MissingContentType, <<>>)
     ELSE IF ~FormatOk(ct.s) THEN Outcome(rl.log, InvalidFormat, <<>>)
     ELSE IF ~isValid(r, secretEnv.val) THEN Outcome(rl.log, Unauthorized, <<>>)
     ELSE Revalidate(rl.log, ct, id, failAt)

\* mutant: only a request that passes authentication is entered in the log
POSTResult_FreeRejections(log, t, secretEnv, r, failAt) ==
  LET rl == isRateLimited(log, t)
      ct == ContentTypeOf(r.body)
      id == ContentIdOf(r.body)
  IN IF rl.limited THEN Outcome(rl.log, TooManyRequests, <<>>)
     ELSE IF ~HdrTruthy(secretEnv) THEN Outcome(Prune(log, t), ServerMisconfigured, <<>>)
     ELSE IF ~isValid(r, secretEnv.val) THEN Outcome(Prune(log, t), Unauthorized, <<>>)
     ELSE IF ParseThrows(r.body) THEN Outcome(rl.log, InvalidJsonBody, <<>>)
     ELSE IF DestructureThrows(r.body) THEN Outcome(rl.log, InternalServerError, <<>>)
     ELSE IF ~Truthy(ct) \/ ~IsString(ct) THEN Outcome(rl.log, MissingContentType, <<>>)
     ELSE IF ~FormatOk(ct.s) THEN Outcome(rl.log, InvalidFormat, <<>>)
     ELSE Revalidate(rl.log, ct, id, failAt)

\* POST(request) at time t with the given log and environment secret
POSTResult(log, t, secretEnv, r, failAt) ==
  LET rl == isRateLimited(log, t)
      ct == ContentTypeOf(r.body)
      id == ContentIdOf(r.body)
  IN IF rl.limited THEN Outcome(rl.log, TooManyRequests, <<>>)
     ELSE IF ~HdrTruthy(secretEnv) THEN Outcome(rl.log, ServerMisconfigured, <<>>)
     ELSE IF ~isValid(r, secretEnv.val) THEN Outcome(rl.log, Unauthorized, <<>>)
     ELSE IF ParseThrows(r.body) THEN Outcome(rl.log, InvalidJsonBody, <<>>)
     ELSE IF DestructureThrows(r.body) THEN Outcome(rl.log, InternalServerError, <<>>)
     ELSE IF ~Truthy(ct) \/ ~IsString(ct) THEN Outcome(rl.log, MissingContentType, <<>>)
     ELSE IF ~FormatOk(ct.s) THEN Outcome(rl.log, InvalidFormat, <<>>)
     ELSE Revalidate(rl.log, ct, id, failAt)

----------------------------------------------------------------------------
(* Inputs *)

Secret1 == "s3cr3t-A"
Secret2 == "s3cr3t-B"

Envs == {NoHdr, Hdr(""), Hdr(Secret1)}

CtPost == <<"p","o","s","t">>
CtCategory == <<"c","a","t","e","g","o","r","y">>
CtTag == <<"t","a","g">>
CtAuthor == <<"a","u","t","h","o","r">>
CtUser == <<"u","s","e","r">>
CtOptions == <<"o","p","t","i","o","n","s">>
CtOptionsPage == <<"o","p","t","i","o","n","s","-","p","a","g","e">>
CtCustom == <<"f","a","q","_","2">>
CtUpper == <<"P","o","s","t">>
CtSpace == <<"m","y"," ","t","y","p","e">>

WellFormedTypes ==
  {CtPost, CtCategory, CtTag, CtAuthor, CtUser, CtOptions, CtOptionsPage,
   CtCustom, CtUpper}

\* contentId values: absent, a number, a numeric string, and the falsy ones
Ids == {Undefined, JNum(42)}
OtherIds == {JNull, JNum(0), JStr(<<"7">>), JStr(<<>>)}

Post42 == Obj(JStr(CtPost), JNum(42))
Post43 == Obj(JStr(CtPost), JNum(43))

Bodies ==
  {Obj(JStr(c), i) : c \in WellFormedTypes, i \in Ids}
  \cup {Obj(JStr(c), i) : c \in {CtPost, CtCustom}, i \in OtherIds}
  \cup {Obj(c, JNum(42)) : c \in {Undefined, JNum(5), JArr, JStr(<<>>), JStr(CtSpace)}}
  \cup {InvalidJson, Scalar(JNull), Scalar(JNum(42)), Scalar(JStr(CtPost)), Scalar(JArr)}

Request(body, sig, secret) == [body |-> body, sig |-> sig, secret |-> secret]

\* x-webhook-signature values tried with body b: absent, empty, the HMAC of
\* b, the HMAC of another body, not an HMAC at all
Signatures(b) ==
  {NoHdr, Hdr(""), Hdr(Hmac(Secret1, RawText(b))), Hdr(Hmac(Secret1, RawText(Post43))),
   Hdr("deadbeef")}

\* x-webhook-secret values: absent, the secret, another of the same length,
\* another of a different length
LegacySecrets == {NoHdr, Hdr(Secret1), Hdr(Secret2), Hdr("guess")}

\* every header combination on one body, and every body correctly signed
Requests ==
  {Request(Post42, s, l) : s \in Signatures(Post42), l \in LegacySecrets}
  \cup {Request(b, Hdr(Hmac(Secret1, RawText(b))), NoHdr) : b \in Bodies}

\* the requests used where the clock is the subject
ProbeRequests ==
  {Request(Post42, Hdr(Hmac(Secret1, RawText(Post42))), NoHdr),
   Request(Post42, NoHdr, NoHdr),
   Request(InvalidJson, NoHdr, Hdr(Secret1))}

\* clock steps: a whole window and one millisecond either side of it
Deltas == {RATE_LIMIT_WINDOW_MS - 1, RATE_LIMIT_WINDOW_MS, RATE_LIMIT_WINDOW_MS + 1}

----------------------------------------------------------------------------
(* The data layer: page number to cursor *)

\* the decimal digits of a natural number, most significant first
RECURSIVE DecimalDigits(_)
DecimalDigits(n) ==
  LET d == <<"0","1","2","3","4","5","6","7","8","9">>[(n % 10) + 1]
  IN IF n < 10 THEN <<d>> ELSE Append(DecimalDigits(n \div 10), d)

\* String(n) for an integer, as in a template literal
NumberText(n) == IF n < 0 THEN <<"-">> \o DecimalDigits(0 - n) ELSE DecimalDigits(n)

\* the ASCII code of the characters a cursor is made of
Ascii(c) ==
  CASE c = "a" -> 97 [] c = "c" -> 99 [] c = "e" -> 101 [] c = "i" -> 105
    [] c = "n" -> 110 [] c = "o" -> 111 [] c = "r" -> 114 [] c = "t" -> 116
    [] c = "y" -> 121 [] c = ":" -> 58 [] c = "-" -> 45
    [] c = "0" -> 48 [] c = "1" -> 49 [] c = "2" -> 50 [] c = "3" -> 51
    [] c = "4" -> 52 [] c = "5" -> 53 [] c = "6" -> 54 [] c = "7" -> 55
    [] c = "8" -> 56 [] c = "9" -> 57

Base64Alphabet ==
  <<"A","B","C","D","E","F","G","H","I","J","K","L","M","N","O","P","Q","R",
    "S","T","U","V","W","X","Y","Z","a","b","c","d","e","f","g","h","i","j",
    "k","l","m","n","o","p","q","r","s","t","u","v","w","x","y","z","0","1",
    "2","3","4","5","6","7","8","9","+","/">>

Sextet(k) == Base64Alphabet[k + 1]

\* Buffer.from(text).toString("base64"): three bytes become four characters,
\* a last group of one or two bytes is padded with "="
RECURSIVE Base64(_)
Base64(bytes) ==
  IF bytes = <<>> THEN <<>>
  ELSE IF Len(bytes) = 1
  THEN <<Sextet(bytes[1] \div 4), Sextet((bytes[1] % 4) * 16), "=", "=">>
  ELSE IF Len(bytes) = 2
  THEN <<Sextet(bytes[1] \div 4),
         Sextet((bytes[1] % 4) * 16 + bytes[2] \div 16),
         Sextet((bytes[2] % 16) * 4), "=">>
  ELSE <<Sextet(bytes[1] \div 4),
         Sextet((bytes[1] % 4) * 16 + bytes[2] \div 16),
         Sextet((bytes[2] % 16) * 4 + bytes[3] \div 64),
         Sextet(bytes[3] % 64)>>
       \o Base64(SubSeq(bytes, 4, Len(bytes)))

Bytes(chars) == [k \in 1..Len(chars) |-> Ascii(chars[k])]

ArrayConnection ==
  <<"a","r","r","a","y","c","o","n","n","e","c","t","i","o","n",":">>

\* a cursor: null, or a string
NullCursor == [isNull |-> TRUE, chars |-> <<>>]
Cursor(chars) == [isNull |-> FALSE, chars |-> chars]

\* mutant: the cursor names the first item of the page, not the last item
\* of the page before it
pageNumberToCursor_FirstOfPage(page, perPage) ==
  IF page <= 1 THEN NullCursor
  ELSE Cursor(Base64(Bytes(ArrayConnection \o NumberText((page - 1) * perPage))))

\* pageNumberToCursor(page, perPage)
pageNumberToCursor(page, perPage) ==
  IF page <= 1 THEN NullCursor
  ELSE LET offset == (page - 1) * perPage
       IN Cursor(Base64(Bytes(ArrayConnection \o NumberText(offset - 1))))

----------------------------------------------------------------------------
(* The data layer, src/unnamed/part_000: configuration and transport *)

\* process.env.WORDPRESS_URL: unset, or a string (a sequence of characters)
UrlUnset == [defined |-> FALSE, chars |-> <<>>]
Url(chars) == [defined |-> TRUE, chars |-> chars]

\* String.prototype.replace(/\/+$/, "")
RECURSIVE StripTrailingSlashes(_)
StripTrailingSlashes(chars) ==
  IF chars # <<>> /\ chars[Len(chars)] = "/"
  THEN StripTrailingSlashes(SubSeq(chars, 1, Len(chars) - 1))
  ELSE chars

\* const baseUrl = process.env.WORDPRESS_URL?.replace(/\/+$/, "")
baseUrl(e) == IF e.defined THEN Url(StripTrailingSlashes(e.chars)) ELSE UrlUnset

\* mutant: a URL counts as configured as soon as the variable is set
isConfigured_WhenSet(e) == e.defined

\* const isConfigured = Boolean(baseUrl); also the tests !baseUrl
isConfigured(e) == baseUrl(e).defined /\ baseUrl(e).chars # <<>>

\* a node of a query result: databaseId, slug, and for a content type or a
\* taxonomy its name and label
NullNode == [isNull |-> TRUE, databaseId |-> 0, slug |-> "", name |-> <<>>, label |-> ""]
Node(id, slug, name, label) ==
  [isNull |-> FALSE, databaseId |-> id, slug |-> slug, name |-> name, label |-> label]

\* the data member of a query response: absent (null), or a connection's
\* nodes, whether it has a next page, and a single looked-up node
NoData == [present |-> FALSE, nodes |-> <<>>, hasNextPage |-> FALSE, single |-> NullNode]
Data(nodes, more, single) ==
  [present |-> TRUE, nodes |-> nodes, hasNextPage |-> more, single |-> single]

\* what fetch() meets: a network failure, or a response with a status and a
\* body; the body does not parse, or parses to null, or to an object with an
\* errors array of the given length (-1: no errors member) and a data member
NetworkFailure == [kind |-> "network", status |-> 0, parse |-> "", errors |-> -1, data |-> NoData]
HttpReply(status, parse, errors, data) ==
  [kind |-> "response", status |-> status, parse |-> parse, errors |-> errors, data |-> data]
Unparsable(status) == HttpReply(status, "throws", -1, NoData)
JsonNullReply == HttpReply(200, "null", -1, NoData)
Json(data) == HttpReply(200, "value", -1, data)
JsonErrors(k, data) == HttpReply(200, "value", k, data)

\* response.ok
ResponseOk(reply) == reply.status >= 200 /\ reply.status <= 299

\* the variables of a query: first, after, and the rest as a text
Variables(first, after, rest) == [first |-> first, after |-> after, rest |-> rest]
NoVariables == Variables(0, NullCursor, "")

\* one fetch() call as the network sees it
Fetched(endpoint, variables, tags) ==
  [endpoint |-> endpoint, variables |-> variables, tags |-> tags]

\* how a call ends: a value, or an exception, and the requests it issued
Returned(value, sent) == [threw |-> FALSE, error |-> "", value |-> value, net |-> sent]
NoValue == [kind |-> "none"]
Thrown(error, sent) == [threw |-> TRUE, error |-> error, value |-> NoValue, net |-> sent]

\* mutant: a 200 response is returned without looking at its errors member
graphqlFetch_IgnoresErrors(e, reply, variables, tags) ==
  LET sent == <<Fetched("graphql", variables, tags)>>
  IN IF ~isConfigured(e) THEN Thrown("WordPress URL not configured", <<>>)
     ELSE IF reply.kind = "network" THEN Thrown("fetch failed", sent)
     ELSE IF ~ResponseOk(reply) THEN Thrown("WordPressAPIError", sent)
     ELSE IF reply.parse = "throws" THEN Thrown("SyntaxError", sent)
     ELSE Returned(reply.data, sent)

\* graphqlFetch(query, variables, tags) with the reply the backend gives
graphqlFetch(e, reply, variables, tags) ==
  LET sent == <<Fetched("graphql", variables, tags)>>
  IN IF ~isConfigured(e) THEN Thrown("WordPress URL not configured", <<>>)
     ELSE IF reply.kind = "network" THEN Thrown("fetch failed", sent)
     ELSE IF ~ResponseOk(reply) THEN Thrown("WordPressAPIError", sent)
     ELSE IF reply.parse = "throws" THEN Thrown("SyntaxError", sent)
     ELSE IF reply.parse = "null" THEN Thrown("TypeError", sent)
     ELSE IF reply.errors > 0 THEN Thrown("WordPressAPIError", sent)
     ELSE Returned(reply.data, sent)

\* mutant: the configuration is not looked at before the strict fetch
graphqlFetchGraceful_NoShortCircuit(e, reply, fallback, variables, tags) ==
  LET sent == <<Fetched("graphql", variables, tags)>>
  IN IF reply.kind = "response" /\ ResponseOk(reply) /\ reply.parse = "value"
        /\ reply.errors <= 0
     THEN Returned(reply.data, sent)
     ELSE Returned(fallback, sent)

\* graphqlFetchGraceful(query, fallback, variables, tags)
graphqlFetchGraceful(e, reply, fallback, variables, tags) ==
  IF ~isConfigured(e) THEN Returned(fallback, <<>>)
  ELSE LET r == graphqlFetch(e, reply, variables, tags)
       IN IF r.threw THEN Returned(fallback, r.net) ELSE r

----------------------------------------------------------------------------
(* The data layer: ACF fields and custom taxonomies from the document API *)

\* more JavaScript values: booleans, arrays with elements, objects with
\* entries (a sequence of key / value pairs in Object.entries order)
JBool(b) == [t |-> "boolean", n |-> IF b THEN 1 ELSE 0, s |-> <<>>]
JList(items) == [t |-> "array", n |-> 0, s |-> items]
Entry(key, value) == [key |-> key, value |-> value]
JObject(entries) == [t |-> "object", n |-> 0, s |-> entries]

\* data[key] of an object: the value of the last entry with that key
RECURSIVE Member(_, _)
Member(entries, key) ==
  IF entries = <<>> THEN Undefined
  ELSE IF entries[Len(entries)].key = key THEN entries[Len(entries)].value
  ELSE Member(SubSeq(entries, 1, Len(entries) - 1), key)

WP_STANDARD_KEYS ==
  {"id", "date", "date_gmt", "guid", "modified", "modified_gmt",
   "slug", "status", "type", "link", "title", "content", "excerpt",
   "author", "featured_media", "comment_status", "ping_status",
   "sticky", "template", "format", "meta", "categories", "tags",
   "acf", "yoast_head", "yoast_head_json", "class_list", "_links",
   "parent", "menu_order", "_embedded"}

\* restEndpoint(postType)
restEndpoint(postType) ==
  IF postType = "post" THEN "posts" ELSE IF postType = "page" THEN "pages" ELSE postType

\* the values filterACF drops: null, undefined, false, "", []
DroppedValue(v) ==
  \/ v.t \in {"null", "undefined"}
  \/ v.t = "boolean" /\ v.n = 0
  \/ v.t = "string" /\ v.s = <<>>
  \/ v.t = "array" /\ v.s = <<>>

KeptEntries(entries) == SelectSeq(entries, LAMBDA en : ~DroppedValue(en.value))

\* Object.entries(v) of an object or an array (index / element pairs)
ObjectEntries(v) ==
  IF v.t = "array" THEN [k \in 1..Len(v.s) |-> Entry(NumberText(k - 1), v.s[k])]
  ELSE v.s

\* mutant: every entry of the acf member is kept, whatever its value
filterACF_KeepsAll(acf) ==
  IF ~Truthy(acf) \/ acf.t \notin {"object", "array"} THEN Undefined
  ELSE IF ObjectEntries(acf) = <<>> THEN Undefined ELSE JObject(ObjectEntries(acf))

\* filterACF(acf)
filterACF(acf) ==
  IF ~Truthy(acf) \/ acf.t \notin {"object", "array"} THEN Undefined
  ELSE IF KeptEntries(ObjectEntries(acf)) = <<>> THEN Undefined
  ELSE JObject(KeptEntries(ObjectEntries(acf)))

\* mutant: the pattern without its bound on the length
NamePattern_AnyLength(chars, letters) ==
  /\ Len(chars) >= 1
  /\ chars[1] \in letters
  /\ \A k \in 2..Len(chars) : chars[k] \in letters \cup DIGITS \cup {"_", "-"}

\* /^[a-z][a-z0-9_-]{0,49}$/ over the given letters (both cases under /i)
NamePattern(chars, letters) ==
  /\ Len(chars) >= 1 /\ Len(chars) <= 50
  /\ chars[1] \in letters
  /\ \A k \in 2..Len(chars) : chars[k] \in letters \cup DIGITS \cup {"_", "-"}

\* a non-empty array whose elements are all numbers
NumberList(v) ==
  /\ v.t = "array" /\ v.s # <<>>
  /\ \A k \in 1..Len(v.s) : v.s[k].t = "number"

\* mutant: a reserved key holding a list of numbers is resolved as well
TermIdList_AnyKey(en) == NumberList(en.value) /\ NamePattern(en.key, LOWER \cup UPPER)

\* the entries of the resource the loop resolves as taxonomy term-id lists
TermIdList(en) ==
  /\ Join(en.key) \notin WP_STANDARD_KEYS
  /\ NumberList(en.value)
  /\ NamePattern(en.key, LOWER \cup UPPER)

\* let taxonomyLabelCache: Map<string, string> | null
NullLabelCache == [isNull |-> TRUE, entries |-> <<>>]
LabelCache(entries) == [isNull |-> FALSE, entries |-> entries]

\* labelMap.get(key): the label set last under that name, or undefined ("")
RECURSIVE LabelOf(_, _)
LabelOf(entries, name) ==
  IF entries = <<>> THEN ""
  ELSE IF entries[Len(entries)].name = name THEN entries[Len(entries)].label
  ELSE LabelOf(SubSeq(entries, 1, Len(entries) - 1), name)

BUILT_IN_TAXONOMIES == {"category", "post_tag", "post_format", "nav_menu"}

EmptyConnection == Data(<<>>, FALSE, NullNode)

\* a list returned by an operation
List(items) == [kind |-> "list", items |-> items]

\* getCustomTaxonomies()
getCustomTaxonomies(e, reply) ==
  LET r == graphqlFetchGraceful(e, reply, EmptyConnection, NoVariables,
                                <<"wordpress", "taxonomies">>)
      custom == SelectSeq(r.value.nodes, LAMBDA t : Join(t.name) \notin BUILT_IN_TAXONOMIES)
  IN IF ~r.value.present THEN Thrown("TypeError", r.net)
     ELSE Returned(List([k \in 1..Len(custom) |->
                           [name |-> custom[k].name, label |-> custom[k].label]]),
                   r.net)

\* mutant: the map is published after its first entry and filled later
getTaxonomyLabelMap_Partial(e, reply, cache) ==
  IF ~cache.isNull THEN [res |-> Returned(cache, <<>>), cache |-> cache]
  ELSE LET t == getCustomTaxonomies(e, reply)
       IN IF t.threw THEN [res |-> t, cache |-> cache]
          ELSE [res |-> Returned(LabelCache(t.value.items), t.net),
                cache |-> LabelCache(SelectSeq(t.value.items, LAMBDA x :
                                                 x = t.value.items[1]))]

\* getTaxonomyLabelMap(): the map, the requests issued, the cache afterwards
getTaxonomyLabelMap(e, reply, cache) ==
  IF ~cache.isNull THEN [res |-> Returned(cache, <<>>), cache |-> cache]
  ELSE LET t == getCustomTaxonomies(e, reply)
       IN IF t.threw THEN [res |-> t, cache |-> cache]
          ELSE [res |-> Returned(LabelCache(t.value.items), t.net),
                cache |-> LabelCache(t.value.items)]

\* what fetchContentExtras returns: {} or { acf, customTaxonomies }
NoExtras ==
  [kind |-> "extras", own |-> {}, acf |-> Undefined, customTaxonomies |-> Undefined]
Extras(acf, taxonomies) ==
  [kind |-> "extras", own |-> {"acf", "customTaxonomies"}, acf |-> acf,
   customTaxonomies |-> taxonomies]

\* the reply to the term request for a taxonomy key (404 for an unknown one)
TermsReply(b, key) ==
  IF Join(key) \in DOMAIN b.terms THEN b.terms[Join(key)]
  ELSE HttpReply(404, "value", -1, JNull)

\* mutant: the term request is stored under its taxonomy tag alone
TermsRequest_OwnTagOnly(key) ==
  Fetched("wp/v2/" \o Join(key), NoVariables, <<"taxonomy-" \o Join(key)>>)

\* fetch(termsUrl, { next: { tags: ["wordpress", `taxonomy-${key}`] } })
TermsRequest(key) ==
  Fetched("wp/v2/" \o Join(key), NoVariables, <<"wordpress", "taxonomy-" \o Join(key)>>)

\* { taxonomy: key, label: labelMap.get(key) || key, terms }
Taxonomy(key, labels, terms) ==
  [taxonomy |-> Join(key),
   label |-> IF LabelOf(labels, key) # "" THEN LabelOf(labels, key) ELSE Join(key),
   terms |-> terms]

\* mutant: the loop ends at the first term request that does not resolve
RECURSIVE ResolveTerms_Aborts(_, _, _)
ResolveTerms_Aborts(lists, b, labels) ==
  IF lists = <<>> THEN [taxonomies |-> <<>>, net |-> <<>>]
  ELSE LET key == Head(lists).key
           reply == TermsReply(b, key)
           rest == ResolveTerms_Aborts(Tail(lists), b, labels)
           resolved ==
             /\ reply.kind = "response" /\ ResponseOk(reply) /\ reply.parse = "value"
             /\ reply.data.t = "array" /\ reply.data.s # <<>>
       IN IF resolved
          THEN [taxonomies |-> <<Taxonomy(key, labels, reply.data.s)>> \o rest.taxonomies,
                net |-> <<TermsRequest(key)>> \o rest.net]
          ELSE [taxonomies |-> <<>>, net |-> <<TermsRequest(key)>>]

\* the loop over the term-id lists: the taxonomies pushed and the requests
\* issued; a failed or empty term request leaves its taxonomy out
RECURSIVE ResolveTerms(_, _, _)
ResolveTerms(lists, b, labels) ==
  IF lists = <<>> THEN [taxonomies |-> <<>>, net |-> <<>>]
  ELSE LET key == Head(lists).key
           reply == TermsReply(b, key)
           rest == ResolveTerms(Tail(lists), b, labels)
           resolved ==
             /\ reply.kind = "response" /\ ResponseOk(reply) /\ reply.parse = "value"
             /\ reply.data.t = "array" /\ reply.data.s # <<>>
       IN [taxonomies |->
             (IF resolved THEN <<Taxonomy(key, labels, reply.data.s)>> ELSE <<>>)
               \o rest.taxonomies,
           net |-> <<TermsRequest(key)>> \o rest.net]

DocumentRequest(postType, id) ==
  Fetched("wp/v2/" \o restEndpoint(postType) \o "/" \o ToString(id), NoVariables,
          <<"wordpress", "rest-" \o postType \o "-" \o ToString(id)>>)

AcfKey == <<"a","c","f">>

\* what fetchContentExtras returns once the document is read: the filtered
\* fields and the taxonomies resolved under the labels of the label map lm;
\* a failing label map ends in the catch
ExtrasResult(sent, acf, lists, b, lm) ==
  LET terms == ResolveTerms(lists, b, lm.res.value.entries)
  IN IF lm.res.threw
     THEN [res |-> Returned(NoExtras, sent \o lm.res.net), cache |-> lm.cache]
     ELSE [res |-> Returned(Extras(filterACF(acf),
                                   IF terms.taxonomies = <<>> THEN Undefined
                                   ELSE JList(terms.taxonomies)),
                            sent \o lm.res.net \o terms.net),
           cache |-> lm.cache]

\* mutant: the custom fields are the non-reserved top-level members of the
\* resource that are no term-id lists, filtered like the acf member
fetchContentExtras_TopLevel(e, postType, id, b, cache) ==
  LET sent == <<DocumentRequest(postType, id)>>
      doc == b.document
      entries == IF doc.data.t \in {"object", "array"} THEN ObjectEntries(doc.data) ELSE <<>>
      fields == SelectSeq(entries, LAMBDA en :
                  Join(en.key) \notin WP_STANDARD_KEYS /\ ~TermIdList(en))
  IN IF ~isConfigured(e) THEN [res |-> Returned(NoExtras, <<>>), cache |-> cache]
     ELSE IF doc.kind = "network" \/ ~ResponseOk(doc) \/ doc.parse # "value"
             \/ doc.data.t \in {"null", "undefined"}
     THEN [res |-> Returned(NoExtras, sent), cache |-> cache]
     ELSE ExtrasResult(sent, JObject(fields), SelectSeq(entries, TermIdList), b,
                       getTaxonomyLabelMap(e, b.taxonomies, cache))

\* mutant: the status of the document response is not looked at
fetchContentExtras_IgnoresStatus(e, postType, id, b, cache) ==
  LET sent == <<DocumentRequest(postType, id)>>
      doc == b.document
      entries == IF doc.data.t \in {"object", "array"} THEN ObjectEntries(doc.data) ELSE <<>>
  IN IF ~isConfigured(e) THEN [res |-> Returned(NoExtras, <<>>), cache |-> cache]
     ELSE IF doc.kind = "network" \/ doc.parse # "value"
             \/ doc.data.t \in {"null", "undefined"}
     THEN [res |-> Returned(NoExtras, sent), cache |-> cache]
     ELSE ExtrasResult(sent, Member(entries, AcfKey), SelectSeq(entries, TermIdList), b,
                       getTaxonomyLabelMap(e, b.taxonomies, cache))

\* fetchContentExtras(postType, id): what it returns, the requests it issued
\* and taxonomyLabelCache afterwards
fetchContentExtras(e, postType, id, b, cache) ==
  LET sent == <<DocumentRequest(postType, id)>>
      doc == b.document
      entries == IF doc.data.t \in {"object", "array"} THEN ObjectEntries(doc.data) ELSE <<>>
  IN IF ~isConfigured(e) THEN [res |-> Returned(NoExtras, <<>>), cache |-> cache]
     ELSE IF doc.kind = "network" \/ ~ResponseOk(doc) \/ doc.parse # "value"
             \/ doc.data.t \in {"null", "undefined"}
     THEN [res |-> Returned(NoExtras, sent), cache |-> cache]
     ELSE ExtrasResult(sent, Member(entries, AcfKey), SelectSeq(entries, TermIdList), b,
                       getTaxonomyLabelMap(e, b.taxonomies, cache))

----------------------------------------------------------------------------
(* The data layer: the exported operations *)

\* transformPost and its kin: the fields of a node the claims look at
transformNode(node) == [id |-> node.databaseId, slug |-> node.slug]

Transformed(nodes) == [k \in 1..Len(nodes) |-> transformNode(nodes[k])]

Item(node) == [kind |-> "item", item |-> node]
UndefinedItem == [kind |-> "undefined"]

\* the operations built as  (await graphqlFetchGraceful(...)).x.nodes.map(...)
\* and the tags they pass
GracefulListTags ==
  [getRecentPosts |-> <<"wordpress", "posts">>,
   getAllCategories |-> <<"wordpress", "categories">>,
   getAllTags |-> <<"wordpress", "tags">>,
   getAllPages |-> <<"wordpress", "pages">>,
   getAllAuthors |-> <<"wordpress", "authors">>,
   searchCategories |-> <<"wordpress">>,
   searchTags |-> <<"wordpress">>,
   searchAuthors |-> <<"wordpress">>]

GracefulList(e, name, b) ==
  LET r == graphqlFetchGraceful(e, b.query, EmptyConnection,
                                Variables(100, NullCursor, ""), GracefulListTags[name])
  IN IF ~r.value.present THEN Thrown("TypeError", r.net)
     ELSE Returned(List(Transformed(r.value.nodes)), r.net)

\* the operations built as  transformX((await graphqlFetch(...)).x)
StrictSingles ==
  {"getPostById", "getCategoryById", "getCategoryBySlug", "getTagById",
   "getTagBySlug", "getPageById", "getAuthorById", "getAuthorBySlug",
   "getFeaturedMediaById"}

StrictSingle(e, b) ==
  LET r == graphqlFetch(e, b.query, Variables(0, NullCursor, "id"), <<"wordpress">>)
  IN IF r.threw THEN r
     ELSE IF ~r.value.present \/ r.value.single.isNull THEN Thrown("TypeError", r.net)
     ELSE Returned(Item(transformNode(r.value.single)), r.net)

\* the operations built as  (await graphqlFetch(...)).posts.nodes.map(...)
StrictLists == {"getPostsByCategory", "getPostsByTag", "getPostsByAuthor", "getTagsByPost"}

StrictList(e, b) ==
  LET r == graphqlFetch(e, b.query, Variables(100, NullCursor, "where"), <<"wordpress">>)
  IN IF r.threw THEN r
     ELSE IF ~r.value.present THEN Thrown("TypeError", r.net)
     ELSE Returned(List(Transformed(r.value.nodes)), r.net)

\* getPostsByAuthorSlug and its kin: a strict lookup by slug, then a strict list
StrictSlugLists == {"getPostsByAuthorSlug", "getPostsByCategorySlug", "getPostsByTagSlug"}

StrictSlugList(e, b) ==
  LET first == StrictSingle(e, b)
      second == StrictList(e, b)
  IN IF first.threw THEN first
     ELSE IF second.threw THEN Thrown(second.error, first.net \o second.net)
     ELSE Returned(second.value, first.net \o second.net)

\* { ...transformX(rawNode), acf: extras.acf,
\*   customTaxonomies: extras.customTaxonomies }
WithExtras(rawNode, sent, extras) ==
  [res |-> Returned([kind |-> "item", item |-> transformNode(rawNode),
                     acf |-> extras.res.value.acf,
                     customTaxonomies |-> extras.res.value.customTaxonomies],
                    sent \o extras.res.net),
   cache |-> extras.cache]

\* getPostBySlug, getPageBySlug: the node, then its extras
GracefulSingle(e, postType, b, cache) ==
  LET r == graphqlFetchGraceful(e, b.query, Data(<<>>, FALSE, NullNode),
                                Variables(0, NullCursor, "slug"), <<"wordpress">>)
  IN IF ~r.value.present THEN [res |-> Thrown("TypeError", r.net), cache |-> cache]
     ELSE IF r.value.single.isNull THEN [res |-> Returned(UndefinedItem, r.net), cache |-> cache]
     ELSE WithExtras(r.value.single, r.net,
                     fetchContentExtras(e, postType, r.value.single.databaseId, b, cache))

\* a paginated result
PageResult(data, total, totalPages) ==
  [kind |-> "page", data |-> data, total |-> total, totalPages |-> totalPages]
emptyResponse == PageResult(<<>>, 0, 0)

\* mutant: the number of pages is rounded down
Ceil_Floor(total, perPage) == total \div perPage

\* Math.ceil(total / perPage) for a positive perPage
Ceil(total, perPage) == (total + perPage - 1) \div perPage

\* filterParams: at most one of search, author, tag, category in the model
NoFilter == [kind |-> "none", value |-> ""]
Filter(kind, value) == [kind |-> kind, value |-> value]

FilterTags(f) ==
  CASE f.kind = "search" -> <<"posts-search">>
    [] f.kind = "author" -> <<"posts-author-" \o f.value>>
    [] f.kind = "tag" -> <<"posts-tag-" \o f.value>>
    [] f.kind = "category" -> <<"posts-category-" \o f.value>>
    [] OTHER -> <<>>

\* mutant: a failed count query counts as a total of 0
PaginatedTail_CountOptional(e, page, perPage, b, rest, tags) ==
  LET cursor == pageNumberToCursor(page, perPage)
      p == graphqlFetch(e, b.query, Variables(perPage, cursor, rest), tags)
      c == graphqlFetch(e, b.count, Variables(0, NullCursor, rest), tags)
      total == IF c.threw \/ ~c.value.present THEN 0 ELSE Len(c.value.nodes)
  IN IF ~isConfigured(e) THEN Returned(emptyResponse, <<>>)
     ELSE IF p.threw \/ ~p.value.present THEN Returned(emptyResponse, p.net \o c.net)
     ELSE Returned(PageResult(Transformed(p.value.nodes), total, Ceil(total, perPage)),
                   p.net \o c.net)

\* the tail of the two paginated operations: both queries are issued, a
\* failure of either, or a data member without the connection, ends in the
\* catch
PaginatedTail(e, page, perPage, b, rest, tags) ==
  LET cursor == pageNumberToCursor(page, perPage)
      p == graphqlFetch(e, b.query, Variables(perPage, cursor, rest), tags)
      c == graphqlFetch(e, b.count, Variables(0, NullCursor, rest), tags)
      total == Len(c.value.nodes)
  IN IF ~isConfigured(e) THEN Returned(emptyResponse, <<>>)
     ELSE IF p.threw \/ c.threw THEN Returned(emptyResponse, p.net \o c.net)
     ELSE IF ~p.value.present \/ ~c.value.present THEN Returned(emptyResponse, p.net \o c.net)
     ELSE Returned(PageResult(Transformed(p.value.nodes), total, Ceil(total, perPage)),
                   p.net \o c.net)

\* getPostsPaginated(page, perPage, filterParams)
getPostsPaginated(e, page, perPage, f, b) ==
  PaginatedTail(e, page, perPage, b, f.kind,
                <<"wordpress", "posts", "posts-page-" \o ToString(page)>> \o FilterTags(f))

\* the wrappers getPostsByCategoryPaginated, ...TagPaginated, ...AuthorPaginated
PaginatedWrappers ==
  [getPostsByCategoryPaginated |-> "category",
   getPostsByTagPaginated |-> "tag",
   getPostsByAuthorPaginated |-> "author"]

\* pageInfo.endCursor of a page: the cursor of its last node
EndCursor(data) ==
  IF data.nodes = <<>> THEN NullCursor
  ELSE Cursor(NumberText(data.nodes[Len(data.nodes)].databaseId))

\* the request of one turn of the loop of a bulk operation
BulkRequest(cursor, rest) == Fetched("graphql", Variables(100, cursor, rest), <<"wordpress">>)

\* mutant: what was collected is returned when a later page fails
BulkStep_KeepsPartial(e, reply, cursor, rest, acc) ==
  LET r == graphqlFetch(e, reply, Variables(100, cursor, rest), <<"wordpress">>)
      slugs == [j \in 1..Len(r.value.nodes) |-> [slug |-> r.value.nodes[j].slug]]
  IN IF r.threw \/ ~r.value.present
     THEN [done |-> TRUE, out |-> List(acc), acc |-> acc, cursor |-> cursor]
     ELSE IF r.value.hasNextPage
     THEN [done |-> FALSE, out |-> List(<<>>), acc |-> acc \o slugs,
           cursor |-> EndCursor(r.value)]
     ELSE [done |-> TRUE, out |-> List(acc \o slugs), acc |-> acc \o slugs,
           cursor |-> EndCursor(r.value)]

\* mutant: the next page is asked for with the cursor of the request before
BulkStep_KeepsCursor(e, reply, cursor, rest, acc) ==
  LET r == graphqlFetch(e, reply, Variables(100, cursor, rest), <<"wordpress">>)
      slugs == [j \in 1..Len(r.value.nodes) |-> [slug |-> r.value.nodes[j].slug]]
  IN IF r.threw \/ ~r.value.present
     THEN [done |-> TRUE, out |-> List(<<>>), acc |-> acc, cursor |-> cursor]
     ELSE IF r.value.hasNextPage
     THEN [done |-> FALSE, out |-> List(<<>>), acc |-> acc \o slugs, cursor |-> cursor]
     ELSE [done |-> TRUE, out |-> List(acc \o slugs), acc |-> acc \o slugs,
           cursor |-> EndCursor(r.value)]

\* one turn of while (hasMore) once the answer to its query is there: the
\* catch, or the items pushed and the cursor kept for the next turn, or the
\* list returned
BulkStep(e, reply, cursor, rest, acc) ==
  LET r == graphqlFetch(e, reply, Variables(100, cursor, rest), <<"wordpress">>)
      slugs == [j \in 1..Len(r.value.nodes) |-> [slug |-> r.value.nodes[j].slug]]
  IN IF r.threw \/ ~r.value.present
     THEN [done |-> TRUE, out |-> List(<<>>), acc |-> acc, cursor |-> cursor]
     ELSE IF r.value.hasNextPage
     THEN [done |-> FALSE, out |-> List(<<>>), acc |-> acc \o slugs,
           cursor |-> EndCursor(r.value)]
     ELSE [done |-> TRUE, out |-> List(acc \o slugs), acc |-> acc \o slugs,
           cursor |-> EndCursor(r.value)]

\* the loop of the bulk operations: one strict query per page, the next one
\* after the cursor of the one before; any failure ends in the catch
RECURSIVE BulkLoop(_, _, _, _, _, _)
BulkLoop(e, pages, k, cursor, rest, acc) ==
  LET reply == IF k <= Len(pages) THEN pages[k] ELSE NetworkFailure
      r == graphqlFetch(e, reply, Variables(100, cursor, rest), <<"wordpress">>)
      slugs == [j \in 1..Len(r.value.nodes) |-> [slug |-> r.value.nodes[j].slug]]
      next == BulkLoop(e, pages, k + 1, EndCursor(r.value), rest, acc \o slugs)
  IN IF r.threw \/ ~r.value.present THEN Returned(List(<<>>), r.net)
     ELSE IF r.value.hasNextPage THEN Returned(next.value, r.net \o next.net)
     ELSE Returned(List(acc \o slugs), r.net)

\* getAllPostSlugs(), getAllPostsForSitemap()
BulkPosts(e, b) ==
  IF ~isConfigured(e) THEN Returned(List(<<>>), <<>>)
  ELSE BulkLoop(e, b.pages, 1, NullCursor, "", <<>>)

----------------------------------------------------------------------------
(* The data layer: custom content types and options pages *)

BUILT_IN_CONTENT_TYPES ==
  {"post", "page", "attachment", "revision", "nav_menu_item", "wp_block",
   "wp_template", "wp_template_part", "wp_navigation", "wp_font_family",
   "wp_font_face", "wp_global_styles"}

LowerCase ==
  <<"a","b","c","d","e","f","g","h","i","j","k","l","m",
    "n","o","p","q","r","s","t","u","v","w","x","y","z">>
UpperCase ==
  <<"A","B","C","D","E","F","G","H","I","J","K","L","M",
    "N","O","P","Q","R","S","T","U","V","W","X","Y","Z">>

\* one character of name.replace(/-/g, "_").toUpperCase()
EnumChar(c) ==
  IF c = "-" THEN "_"
  ELSE IF c \in LOWER THEN UpperCase[CHOOSE k \in 1..Len(LowerCase) : LowerCase[k] = c]
  ELSE c

\* mutant: the pattern is matched with letter case ignored
CPT_NAME_PATTERN_IgnoreCase(name) == NamePattern(name, LOWER \cup UPPER)

\* CPT_NAME_PATTERN.test(name)
CPT_NAME_PATTERN(name) == NamePattern(name, LOWER)

InvalidContentTypeName == "Invalid content type name"

\* toContentTypeEnum(name)
toContentTypeEnum(name) ==
  IF ~CPT_NAME_PATTERN(name) THEN Thrown(InvalidContentTypeName, <<>>)
  ELSE Returned(Join([k \in 1..Len(name) |-> EnumChar(name[k])]), <<>>)

\* the body of getCustomPostTypes(), given the reply fetch() yields
getCustomPostTypes(e, reply) ==
  LET r == graphqlFetchGraceful(e, reply, EmptyConnection, NoVariables,
                                <<"wordpress", "content-types">>)
      custom == SelectSeq(r.value.nodes, LAMBDA ct : Join(ct.name) \notin BUILT_IN_CONTENT_TYPES)
  IN IF ~r.value.present THEN Thrown("TypeError", r.net)
     ELSE Returned(List([k \in 1..Len(custom) |-> [name |-> custom[k].name]]), r.net)

\* getContentTypeBySlug(slug)
getContentTypeBySlug(e, reply, slug) ==
  LET types == getCustomPostTypes(e, reply)
      found == SelectSeq(types.value.items, LAMBDA ct : ct.name = slug)
  IN IF types.threw THEN types
     ELSE IF found = <<>> THEN Returned(UndefinedItem, types.net)
     ELSE Returned(Item(found[1]), types.net)

CptTags(name) == <<"wordpress", "cpt-" \o Join(name)>>

\* getCPTNodesPaginated(cptInfo, page, perPage)
getCPTNodesPaginated(e, name, page, perPage, b) ==
  LET contentType == toContentTypeEnum(name)
  IN IF contentType.threw THEN contentType
     ELSE PaginatedTail(e, page, perPage, b, contentType.value,
                        CptTags(name) \o <<"cpt-" \o Join(name) \o "-page-" \o ToString(page)>>)

\* getCPTNodeBySlug(cptInfo, slug)
getCPTNodeBySlug(e, name, slug, b, cache) ==
  LET contentType == toContentTypeEnum(name)
      r == graphqlFetchGraceful(e, b.query, EmptyConnection,
                                Variables(0, NullCursor, contentType.value),
                                CptTags(name) \o <<"cpt-" \o Join(name) \o "-" \o slug>>)
      rawNode == r.value.nodes[1]
  IN IF contentType.threw THEN [res |-> contentType, cache |-> cache]
     ELSE IF ~r.value.present THEN [res |-> Thrown("TypeError", r.net), cache |-> cache]
     ELSE IF r.value.nodes = <<>> THEN [res |-> Returned(UndefinedItem, r.net), cache |-> cache]
     ELSE WithExtras(rawNode, r.net,
                     fetchContentExtras(e, Join(name), rawNode.databaseId, b, cache))

\* getAllCPTSlugs(cptInfo)
getAllCPTSlugs(e, name, b) ==
  LET contentType == toContentTypeEnum(name)
  IN IF ~isConfigured(e) THEN Returned(List(<<>>), <<>>)
     ELSE IF contentType.threw THEN contentType
     ELSE BulkLoop(e, b.pages, 1, NullCursor, contentType.value, <<>>)

\* what both options operations do with the reply before they look at it
OptionsFailed(reply) ==
  reply.kind = "network" \/ ~ResponseOk(reply) \/ reply.parse = "throws"

\* getACFOptionsPages()
getACFOptionsPages(e, b) ==
  LET sent == <<Fetched("next-wp/v1/options-pages", NoVariables,
                        <<"wordpress", "options-pages">>)>>
  IN IF ~isConfigured(e) THEN Returned(List(<<>>), <<>>)
     ELSE IF OptionsFailed(b.options) THEN Returned(List(<<>>), sent)
     ELSE IF b.options.parse = "null" \/ b.options.data.t # "array"
     THEN Returned(List(<<>>), sent)
     ELSE Returned(List(b.options.data.s), sent)

\* getACFOptionsPageBySlug(slug)
getACFOptionsPageBySlug(e, slug, b) ==
  LET sent == <<Fetched("next-wp/v1/options-pages/" \o slug, NoVariables,
                        <<"wordpress", "options-pages", "options-page-" \o slug>>)>>
  IN IF ~isConfigured(e) THEN Returned(UndefinedItem, <<>>)
     ELSE IF OptionsFailed(b.options) THEN Returned(UndefinedItem, sent)
     ELSE IF b.options.parse = "null" \/ b.options.data.t \in {"null", "undefined"}
     THEN Returned(UndefinedItem, sent)
     ELSE IF b.options.data.t = "object"
             /\ Truthy(Member(b.options.data.s, <<"c","o","d","e">>))
     THEN Returned(UndefinedItem, sent)
     ELSE Returned(Item(b.options.data), sent)

----------------------------------------------------------------------------
(* The data layer: calls *)

\* an operation and its arguments: a content type or post type name, a page
\* number and a page size
Operation(name, type, page, perPage) ==
  [name |-> name, type |-> type, page |-> page, perPage |-> perPage]
NoOperation == Operation("", <<>>, 0, 0)

\* the value passed as fallback where graphqlFetchGraceful is called directly
Fallback == Data(<<Node(0, "fallback", <<>>, "")>>, FALSE, NullNode)

Plain(r, cache) == [res |-> r, cache |-> cache]

\* the operation o run to its end: the result and taxonomyLabelCache after it
Exec(o, e, b, cache) ==
  CASE o.name = "graphqlFetch" ->
         Plain(graphqlFetch(e, b.query, NoVariables, <<"wordpress">>), cache)
    [] o.name = "graphqlFetchGraceful" ->
         Plain(graphqlFetchGraceful(e, b.query, Fallback, NoVariables, <<"wordpress">>), cache)
    [] o.name = "pageNumberToCursor" ->
         Plain(Returned(pageNumberToCursor(o.page, o.perPage), <<>>), cache)
    [] o.name \in DOMAIN GracefulListTags -> Plain(GracefulList(e, o.name, b), cache)
    [] o.name = "getCustomTaxonomies" -> Plain(getCustomTaxonomies(e, b.taxonomies), cache)
    [] o.name \in StrictSingles -> Plain(StrictSingle(e, b), cache)
    [] o.name \in StrictLists -> Plain(StrictList(e, b), cache)
    [] o.name \in StrictSlugLists -> Plain(StrictSlugList(e, b), cache)
    [] o.name \in {"getPostBySlug", "getPageBySlug"} ->
         GracefulSingle(e, IF o.name = "getPostBySlug" THEN "post" ELSE "page", b, cache)
    [] o.name = "getPostsPaginated" ->
         Plain(getPostsPaginated(e, o.page, o.perPage, NoFilter, b), cache)
    [] o.name \in DOMAIN PaginatedWrappers ->
         Plain(getPostsPaginated(e, o.page, o.perPage,
                                 Filter(PaginatedWrappers[o.name], "7"), b), cache)
    [] o.name \in {"getAllPostSlugs", "getAllPostsForSitemap"} -> Plain(BulkPosts(e, b), cache)
    [] o.name = "fetchContentExtras" -> fetchContentExtras(e, Join(o.type), 42, b, cache)
    [] o.name = "getCustomPostTypes" -> Plain(getCustomPostTypes(e, b.types), cache)
    [] o.name = "getContentTypeBySlug" -> Plain(getContentTypeBySlug(e, b.types, o.type), cache)
    [] o.name = "getCPTNodesPaginated" ->
         Plain(getCPTNodesPaginated(e, o.type, o.page, o.perPage, b), cache)
    [] o.name = "getCPTNodeBySlug" -> getCPTNodeBySlug(e, o.type, "hello", b, cache)
    [] o.name = "getAllCPTSlugs" -> Plain(getAllCPTSlugs(e, o.type, b), cache)
    [] o.name = "getACFOptionsPages" -> Plain(getACFOptionsPages(e, b), cache)
    [] o.name = "getACFOptionsPageBySlug" -> Plain(getACFOptionsPageBySlug(e, "footer", b), cache)

\* no operation called yet
NoResult == [threw |-> FALSE, error |-> "", value |-> NoValue]

\* the term requests of a backend on which no taxonomy resolves
NoTerms == [key \in {} |-> NetworkFailure]

\* a backend that answers every request with nothing in it
QuietBackend ==
  [query |-> Json(EmptyConnection), count |-> Json(EmptyConnection),
   pages |-> <<Json(EmptyConnection)>>, document |-> Json(JObject(<<>>)),
   taxonomies |-> Json(EmptyConnection), terms |-> NoTerms,
   types |-> Json(EmptyConnection), options |-> Json(JList(<<>>))]

\* the data layer before its first call, with no backend URL
DataIdle ==
  /\ wordpressUrl = UrlUnset
  /\ backend = QuietBackend
  /\ op = NoOperation
  /\ ret = NoResult
  /\ net = <<>>
  /\ taxonomyLabelCache = NullLabelCache

\* the operation o ends with out: its result, the requests it issued and
\* taxonomyLabelCache become what the next call finds
Settle(o, out) ==
  /\ op' = o
  /\ ret' = [threw |-> out.res.threw, error |-> out.res.error, value |-> out.res.value]
  /\ net' = out.res.net
  /\ taxonomyLabelCache' = out.cache

\* one call of a data-layer operation, from its start to its result, in a
\* render of its own and with nothing in the fetch cache
Call(o) ==
  /\ Settle(o, Exec(o, wordpressUrl, backend, taxonomyLabelCache))
  /\ UNCHANGED <<wordpressUrl, backend>>
  /\ UNCHANGED webhookVars
  /\ UNCHANGED cacheVars
  /\ UNCHANGED taskVars

----------------------------------------------------------------------------
(* The two caches in front of schema discovery: cache() of React around
   getCustomPostTypes, and the fetch cache that  next: { tags, revalidate }
   asks for *)

CACHE_TTL == 3600

\* cache(): nothing memoized in this render, or the settled result
NoMemo == [isNull |-> TRUE, result |-> Thrown("", <<>>)]
Memo(result) == [isNull |-> FALSE, result |-> result]

\* the fetch cache: no entry, or a response stored under its tags
NoEntry == [present |-> FALSE, tags |-> <<>>, reply |-> NetworkFailure]
CacheEntry(tags, reply) == [present |-> TRUE, tags |-> tags, reply |-> reply]

CachesEmpty ==
  /\ typesMemo = NoMemo
  /\ fetchCache = NoEntry
  /\ queries = 0
  /\ served = "none"

\* revalidateTag(tag) drops the entries stored under that tag
Evict(entry, made) ==
  IF entry.present
     /\ \E k \in 1..Len(made) :
          /\ made[k].fn = "revalidateTag"
          /\ \E j \in 1..Len(entry.tags) : entry.tags[j] = made[k].arg
  THEN NoEntry
  ELSE entry

\* mutant: cache() remembers nothing
CachedTypes_NoMemo(memo, entry, e, b) ==
  LET reply == IF entry.present THEN entry.reply ELSE b.types
      r == getCustomPostTypes(e, reply)
  IN IF ~isConfigured(e)
     THEN [res |-> r, memo |-> Memo(r), entry |-> entry, served |-> "fallback"]
     ELSE IF entry.present
     THEN [res |-> [r EXCEPT !.net = <<>>], memo |-> Memo(r), entry |-> entry,
           served |-> "fetch cache"]
     ELSE [res |-> r, memo |-> Memo(r),
           entry |-> IF reply.kind = "response" /\ reply.status = 200
                     THEN CacheEntry(<<"wordpress", "content-types">>, reply) ELSE NoEntry,
           served |-> "backend"]

\* getCustomPostTypes() as a caller sees it: the memoized result of this
\* render; or its body run on the cached response, or on the backend's,
\* which is stored when its status is 200
CachedTypes(memo, entry, e, b) ==
  LET reply == IF entry.present THEN entry.reply ELSE b.types
      r == getCustomPostTypes(e, reply)
  IN IF ~memo.isNull
     THEN [res |-> [memo.result EXCEPT !.net = <<>>], memo |-> memo, entry |-> entry,
           served |-> "memo"]
     ELSE IF ~isConfigured(e)
     THEN [res |-> r, memo |-> Memo(r), entry |-> entry, served |-> "fallback"]
     ELSE IF entry.present
     THEN [res |-> [r EXCEPT !.net = <<>>], memo |-> Memo(r), entry |-> entry,
           served |-> "fetch cache"]
     ELSE [res |-> r, memo |-> Memo(r),
           entry |-> IF reply.kind = "response" /\ reply.status = 200
                     THEN CacheEntry(<<"wordpress", "content-types">>, reply) ELSE NoEntry,
           served |-> "backend"]

----------------------------------------------------------------------------
(* The routes and the sitemap that feed discovered content types to the
   data layer; types is what getCustomPostTypes() gave the caller *)

\* notFound()
notFound == [kind |-> "notFound"]

\* one entry of generateStaticParams() or of the sitemap
Param(cpt, slug) == [cpt |-> cpt, slug |-> slug]

\* the entries one content type adds in the loops over the types: slugs is
\* what getAllCPTSlugs gave for it, rest what the types after it add;
\* archive tells whether the type itself gets an entry
PushSlugs(ct, archive, slugs, rest) ==
  LET here == (IF archive THEN <<Param(ct.name, "")>> ELSE <<>>)
              \o [j \in 1..Len(slugs.value.items) |-> Param(ct.name, slugs.value.items[j].slug)]
  IN IF slugs.threw THEN slugs
     ELSE IF rest.threw THEN Thrown(rest.error, slugs.net \o rest.net)
     ELSE Returned(List(here \o rest.value.items), slugs.net \o rest.net)

\* for (const ct of types) { const slugs = await getAllCPTSlugs(ct); ... }
\* from the k-th type on
RECURSIVE SlugsOfTypes(_, _, _, _, _)
SlugsOfTypes(types, k, archive, e, b) ==
  IF k > Len(types) THEN Returned(List(<<>>), <<>>)
  ELSE PushSlugs(types[k], archive, getAllCPTSlugs(e, types[k].name, b),
                 SlugsOfTypes(types, k + 1, archive, e, b))

\* what a caller of getCustomPostTypes() ends with when r is what it does
\* with the types
AfterTypes(types, r) ==
  IF types.threw THEN types
  ELSE [r EXCEPT !.net = types.net \o r.net]

\* generateStaticParams() of the single-item route
generateStaticParams(types, e, b) ==
  AfterTypes(types, SlugsOfTypes(types.value.items, 1, FALSE, e, b))

\* the entries of the sitemap for posts, content types and options pages
SitemapOf(types, posts, optionsPages, cptUrls) ==
  LET sent == posts.net \o types.net \o optionsPages.net
      postUrls == [k \in 1..Len(posts.value.items) |->
                     Param(<<"p","o","s","t","s">>, posts.value.items[k].slug)]
      optionsUrls == [k \in 1..Len(optionsPages.value.items) |->
                        Param(<<"o","p","t","i","o","n","s">>, "")]
  IN IF types.threw THEN Thrown(types.error, sent)
     ELSE IF cptUrls.threw THEN Thrown(cptUrls.error, sent \o cptUrls.net)
     ELSE Returned(List(postUrls \o cptUrls.value.items \o optionsUrls), sent \o cptUrls.net)

\* sitemap()
sitemap(types, e, b) ==
  SitemapOf(types, BulkPosts(e, b), getACFOptionsPages(e, b),
            SlugsOfTypes(types.value.items, 1, TRUE, e, b))

\* types.find((ct) => ct.name === slug) of getContentTypeBySlug
FindContentType(types, slug) == SelectSeq(types.value.items, LAMBDA ct : ct.name = slug)

\* CPTArchivePage: the page of nodes shown under /<cpt>
CPTArchivePage(types, cpt, page, e, b) ==
  LET found == FindContentType(types, cpt)
  IN IF types.threw THEN types
     ELSE IF found = <<>> THEN Returned(notFound, types.net)
     ELSE AfterTypes(types, getCPTNodesPaginated(e, found[1].name, page, 9, b))

\* the detail page once getCPTNodeBySlug has ended with r
DetailOf(types, r) ==
  IF ~r.res.threw /\ r.res.value.kind = "undefined"
  THEN Plain(Returned(notFound, types.net \o r.res.net), r.cache)
  ELSE Plain([r.res EXCEPT !.net = types.net \o r.res.net], r.cache)

\* CPTDetailPage: the node shown under /<cpt>/<slug>
CPTDetailPage(types, cpt, slug, e, b, cache) ==
  LET found == FindContentType(types, cpt)
  IN IF types.threw THEN Plain(types, cache)
     ELSE IF found = <<>> THEN Plain(Returned(notFound, types.net), cache)
     ELSE DetailOf(types, getCPTNodeBySlug(e, found[1].name, slug, b, cache))

\* what a render does with the discovered types
Routes == {"generateStaticParams", "sitemap", "CPTArchivePage", "CPTDetailPage"}

Route(o, types, e, b, cache) ==
  CASE o.name = "getCustomPostTypes" -> Plain(types, cache)
    [] o.name = "generateStaticParams" -> Plain(generateStaticParams(types, e, b), cache)
    [] o.name = "sitemap" -> Plain(sitemap(types, e, b), cache)
    [] o.name = "CPTArchivePage" -> Plain(CPTArchivePage(types, o.type, o.page, e, b), cache)
    [] o.name = "CPTDetailPage" -> CPTDetailPage(types, o.type, "hello", e, b, cache)

----------------------------------------------------------------------------
(* The state machine *)

Init ==
  /\ now = 0
  /\ requestLog = <<>>
  /\ env \in Envs
  /\ req = Request(InvalidJson, NoHdr, NoHdr)
  /\ resp = NoResponse
  /\ calls = <<>>
  /\ admitted = <<>>
  /\ repeated = FALSE
  /\ handledAt = 0
  /\ fault = 0
  /\ DataIdle
  /\ CachesEmpty
  /\ NoTasks

\* one request handled from arrival to response; cache call number k throws
Handle(r, k) ==
  LET out == POSTResult(requestLog, now, env, r, k)
  IN /\ requestLog' = out.log
     /\ req' = r
     /\ resp' = out.resp
     /\ calls' = out.calls
     /\ admitted' = IF out.resp.status = 429 THEN admitted ELSE Append(admitted, now)
     /\ repeated' = (resp.status # 0 /\ r = req)
     /\ handledAt' = now
     /\ fault' = k
     /\ fetchCache' = Evict(fetchCache, out.calls)
     /\ UNCHANGED <<now, env>>
     /\ UNCHANGED dataVars
     /\ UNCHANGED <<typesMemo, queries, served>>
     /\ UNCHANGED taskVars

\* one request handled from arrival to response; the cache calls succeed
POST(r) == Handle(r, 0)

\* one request handled while revalidateTag / revalidatePath throws at call k
POSTFault(r, k) == Handle(r, k)

\* time passes; the history forgets what is more than a window old
Tick(d) ==
  /\ now + d <= MaxWindows * (RATE_LIMIT_WINDOW_MS + 1)
  /\ now' = now + d
  /\ admitted' = SelectSeq(admitted, LAMBDA g : now + d - g <= RATE_LIMIT_WINDOW_MS)
  /\ UNCHANGED <<requestLog, env, req, resp, calls, repeated, handledAt, fault>>
  /\ UNCHANGED dataVars
  /\ UNCHANGED cacheVars
  /\ UNCHANGED taskVars

Next ==
  \/ \E r \in Requests : POST(r)
  \/ Tick(RATE_LIMIT_WINDOW_MS + 1)

Spec == Init /\ [][Next]_vars

NextWindow ==
  \/ \E r \in ProbeRequests : POST(r)
  \/ \E d \in Deltas : Tick(d)

SpecWindow == Init /\ [][NextWindow]_vars

\* the webhook before its first request, with no secret configured
WebhookIdle ==
  /\ now = 0
  /\ requestLog = <<>>
  /\ env = NoHdr
  /\ req = Request(InvalidJson, NoHdr, NoHdr)
  /\ resp = NoResponse
  /\ calls = <<>>
  /\ admitted = <<>>
  /\ repeated = FALSE
  /\ handledAt = 0
  /\ fault = 0

\* the requests used where a throwing cache call is the subject: one signed
\* request per row of the tag table, one without an id, one rejected
FaultRequests ==
  {Request(b, Hdr(Hmac(Secret1, RawText(b))), NoHdr) :
     b \in {Obj(JStr(c), JNum(42)) : c \in {CtPost, CtCategory, CtOptions, CtCustom}}
           \cup {Obj(JStr(CtPost), Undefined), Obj(JStr(CtSpace), JNum(42))}}
  \cup {Request(Post42, NoHdr, NoHdr)}

\* the longest sequence of cache calls a request leads to
MaxCalls == 6

NextFault ==
  \/ \E r \in FaultRequests : POST(r)
  \/ \E r \in FaultRequests : \E k \in 1..MaxCalls : POSTFault(r, k)

SpecFault == Init /\ [][NextFault]_vars

\* the most content types queries a behaviour sends to the backend
MaxQueries == 3

\* a route, or getCustomPostTypes() alone, run in the current render, where
\* t is what getCustomPostTypes() does for it
RenderWith(o, t) ==
  /\ t.served = "backend" => queries < MaxQueries
  /\ Settle(o, Route(o, t.res, wordpressUrl, backend, taxonomyLabelCache))
  /\ typesMemo' = t.memo
  /\ fetchCache' = t.entry
  /\ queries' = IF t.served = "backend" THEN queries + 1 ELSE queries
  /\ served' = t.served
  /\ UNCHANGED <<wordpressUrl, backend>>
  /\ UNCHANGED webhookVars
  /\ UNCHANGED taskVars

\* a route, or getCustomPostTypes() alone, run in the current render
Render(o) == RenderWith(o, CachedTypes(typesMemo, fetchCache, wordpressUrl, backend))

\* the render ends and another begins: cache() starts empty
NewRender ==
  /\ ~typesMemo.isNull
  /\ typesMemo' = NoMemo
  /\ UNCHANGED <<fetchCache, queries, served>>
  /\ UNCHANGED dataVars
  /\ UNCHANGED webhookVars
  /\ UNCHANGED taskVars

\* the entry outlives revalidate: CACHE_TTL and is dropped
Expire ==
  /\ fetchCache.present
  /\ fetchCache' = NoEntry
  /\ UNCHANGED <<typesMemo, queries, served>>
  /\ UNCHANGED dataVars
  /\ UNCHANGED webhookVars
  /\ UNCHANGED taskVars

----------------------------------------------------------------------------
(* Vocabulary of the claims, stated on the request and the response alone *)

\* a request has been handled
Handled == resp.status # 0

\* the response in the state answers a request that arrived at the current time
JustHandled == Handled /\ handledAt = now

\* a webhook secret is configured server-side
Configured == env.present /\ env.val # ""

\* x-webhook-signature is the hex HMAC-SHA256 of the raw body under the secret
SignatureMatches == req.sig.present /\ req.sig.val = Hmac(env.val, RawText(req.body))

\* x-webhook-secret is the configured secret
SecretMatches == req.secret.present /\ req.secret.val = env.val

\* the request got past the rate limiter, the configuration check and authentication
Authenticated == Handled /\ Configured /\ resp.status \notin {429, 401}

\* the cache tags evicted for the request
EvictedTags == {calls[k].arg : k \in {j \in 1..Len(calls) : calls[j].fn = "revalidateTag"}}

\* the request made the handler revalidate a route
RouteRevalidated == \E k \in 1..Len(calls) : calls[k].fn = "revalidatePath"

\* the admitted requests less than a window old
AdmittedInWindow ==
  {k \in 1..Len(admitted) : now - admitted[k] < RATE_LIMIT_WINDOW_MS}

----------------------------------------------------------------------------
(* C1 *)

----------------------------------------------------------------------------
(* C2 *)

\* C2: with a secret configured, a request that is not rate-limited and for
\* which neither the signature nor the legacy secret validates is answered
\* 401, evicts no cache tag and revalidates no route.
C2_UnauthenticatedRejected ==
  (Handled /\ Configured /\ resp.status # 429 /\ ~SignatureMatches /\ ~SecretMatches)
    => (resp.status = 401 /\ EvictedTags = {} /\ ~RouteRevalidated)

\* a body signed as another body was: 401
C2_Witness ==
  /\ Configured
  /\ req.body = Post42
  /\ req.sig = Hdr(Hmac(env.val, RawText(Post43)))
  /\ req.secret = NoHdr
  /\ resp.status = 401
  /\ calls = <<>>

----------------------------------------------------------------------------
(* C3 *)

\* C3: with a secret configured, a request that is not rate-limited passes
\* authentication whenever its signature is the HMAC of the raw body or its
\* x-webhook-secret is the configured secret, whatever the other header
\* holds, and is answered 401 only if neither validates.
C3_EitherModeAccepted ==
  (Handled /\ Configured /\ resp.status # 429)
    => /\ (SignatureMatches \/ SecretMatches) => resp.status # 401
       /\ resp.status = 401 => (~SignatureMatches /\ ~SecretMatches)

----------------------------------------------------------------------------
(* C4 *)

\* C4: a rate-limited request receives the same 429 response whatever its
\* authentication headers, its body and the configured secret are: in the
\* limiter state in which a request was just answered 429, every other
\* request under every environment is answered with that very response,
\* makes no cache call and leaves the log as it is.
C4_RateLimitLeaksNothing ==
  (JustHandled /\ resp.status = 429) =>
     \A e \in Envs : \A r \in Requests :
        LET other == POSTResult(requestLog, now, e, r, 0)
        IN other.resp = resp /\ other.calls = <<>> /\ other.log = requestLog

\* a correctly signed request was answered 429 by a configured endpoint
C4_Witness ==
  /\ JustHandled
  /\ resp = TooManyRequests
  /\ Configured
  /\ SignatureMatches
  /\ Len(requestLog) = RATE_LIMIT_MAX

----------------------------------------------------------------------------
(* C5 *)

\* C5 as stated: while no secret is configured every request is answered 500
\* and evicts no cache tag.
C5_AlwaysMisconfigured ==
  (Handled /\ ~Configured) => (resp.status = 500 /\ EvictedTags = {})

\* C5 amended: while no secret is configured, every request the rate limiter
\* admits is answered 500 (server misconfiguration), a request is answered
\* otherwise only by the rate limiter's 429 when 30 requests fill the window,
\* and no request evicts a cache tag or revalidates a route.
C5_MisconfiguredUnlessLimited ==
  (Handled /\ ~Configured) =>
     /\ resp.status \in {500, 429}
     /\ resp.status = 500 => resp.message = "Server misconfiguration"
     /\ resp.status = 429 => Len(requestLog) = RATE_LIMIT_MAX
     /\ EvictedTags = {}
     /\ ~RouteRevalidated

\* a correctly formed request is answered 500 by an endpoint whose secret is
\* the empty string, after earlier requests
C5_Witness ==
  /\ env = Hdr("")
  /\ resp.status = 500
  /\ req.body = Post42
  /\ req.secret = Hdr(Secret1)
  /\ Len(requestLog) > 1

----------------------------------------------------------------------------
(* C6 *)

\* the contentId as it appears in a tag
IdText(id) == IF id.t = "number" THEN ToString(id.n) ELSE Join(id.s)

\* the mapping table of the claim: cats is the tag of the category list,
\* withId tells whether the tags that carry the id are evicted
TableTags(c, i, cats, withId) ==
  LET idTags(S) == IF withId THEN S ELSE {}
  IN CASE c = "post" -> {"posts", "posts-page-1"} \cup idTags({"post-" \o i})
       [] c = "category" ->
            {cats} \cup idTags({"posts-category-" \o i, "category-" \o i})
       [] c = "tag" -> {"tags"} \cup idTags({"posts-tag-" \o i, "tag-" \o i})
       [] c \in {"author", "user"} ->
            {"authors"} \cup idTags({"posts-author-" \o i, "author-" \o i})
       [] c \in {"options", "options-page"} ->
            {"options-pages"} \cup idTags({"options-page-" \o i})
       [] OTHER -> {"cpt-" \o c} \cup idTags({"cpt-" \o c \o "-" \o i})

\* the type-specific tags: all but the two evicted for every request
TypeSpecificTags == EvictedTags \ {"wordpress", "content-types"}

\* the contentId is given: neither absent nor one of the values that stand
\* for no id (null, 0, the empty string)
IdGiven(id) ==
  /\ id.t \notin {"undefined", "null"}
  /\ id # JNum(0)
  /\ id # JStr(<<>>)

\* C6 as stated: the list tag of category and tag is {c}s, so categorys.
C6_TableAsStated ==
  resp.status = 200 =>
    TypeSpecificTags =
      TableTags(Join(req.body.ct.s), IdText(req.body.id), "categorys",
                IdGiven(req.body.id))

\* C6 amended: the list tag of category is categories, and the tags that
\* carry the id are evicted only when contentId is given and not falsy
\* (absent, null, 0 and the empty string evict none of them); the rest of
\* the table is as stated.
C6_TagTable ==
  resp.status = 200 =>
    TypeSpecificTags =
      TableTags(Join(req.body.ct.s), IdText(req.body.id), "categories",
                IdGiven(req.body.id))

\* a user request with an id evicted the author tags
C6_Witness ==
  /\ resp.status = 200
  /\ req.body = Obj(JStr(CtUser), JNum(42))
  /\ TypeSpecificTags = {"authors", "posts-author-42", "author-42"}

----------------------------------------------------------------------------
(* C7 *)

\* C7: every accepted request evicts wordpress and content-types, and the
\* layout revalidation is its last cache call, after every tag eviction.
C7_UmbrellaThenLayout ==
  resp.status = 200 =>
    /\ {"wordpress", "content-types"} \subseteq EvictedTags
    /\ Len(calls) > 0
    /\ calls[Len(calls)] = PathCall
    /\ \A k \in 1..(Len(calls) - 1) : calls[k].fn = "revalidateTag"

\* a custom type without id: wordpress, cpt-faq_2, content-types, then the layout
C7_Witness ==
  /\ resp.status = 200
  /\ req.body = Obj(JStr(CtCustom), Undefined)
  /\ Len(calls) = 4
  /\ calls[4] = PathCall

----------------------------------------------------------------------------
(* C8 *)

\* C8 as stated: the request {contentType: "post", contentId: 42}, accepted
\* once and sent again, evicts the same tags and is not answered an error.
C8_IdempotentAsStated ==
  [][(req' = req /\ req.body = Post42 /\ resp.status = 200)
       => (EvictedTags' = EvictedTags /\ resp'.status < 400)]_vars

\* C8 amended: the request {contentType: "post", contentId: 42}, accepted
\* once and sent again, evicts the same tags with the same calls and is
\* answered 200 again unless the rate limiter rejects it; rejected with 429,
\* it evicts nothing.
C8_IdempotentUnlessLimited ==
  [][(req' = req /\ req.body = Post42 /\ resp.status = 200)
       => \/ (calls' = calls /\ resp' = resp)
          \/ (resp'.status = 429 /\ calls' = <<>>
                /\ Len(requestLog) = RATE_LIMIT_MAX)]_vars

\* the same request was handled twice in a row and accepted the second time
C8_Witness ==
  /\ repeated
  /\ req.body = Post42
  /\ resp.status = 200
  /\ EvictedTags = {"wordpress", "posts", "post-42", "posts-page-1", "content-types"}

----------------------------------------------------------------------------
(* C9 *)

\* the request carries a JSON object whose contentType is a string
HasStringType == req.body.kind = "object" /\ req.body.ct.t = "string"

\* ^[a-z0-9_-]+$ over the characters of the contentType, with the letters allowed
MatchesPattern(chars, letters) ==
  /\ Len(chars) >= 1
  /\ \A k \in 1..Len(chars) : chars[k] \in letters \cup DIGITS \cup {"_", "-"}

\* C9 as stated: an authenticated request whose contentType does not match
\* ^[a-z0-9_-]+$ (lowercase only) is answered 400 and evicts nothing.
C9_LowercaseOnly ==
  (Authenticated /\ HasStringType /\ ~MatchesPattern(req.body.ct.s, LOWER))
    => (resp.status = 400 /\ EvictedTags = {})

\* C9 amended: an authenticated request whose contentType does not match
\* ^[a-z0-9_-]+$ with letter case ignored (it is empty or holds a character
\* other than an ASCII letter, a digit, underscore or hyphen) is answered 400
\* and evicts nothing; uppercase letters are accepted.
C9_InvalidFormatRejected ==
  (Authenticated /\ HasStringType /\ ~MatchesPattern(req.body.ct.s, LOWER \cup UPPER))
    => (resp.status = 400 /\ EvictedTags = {} /\ ~RouteRevalidated)

\* "my type" was answered 400 Invalid content type format
C9_Witness ==
  /\ Authenticated
  /\ req.body.ct = JStr(CtSpace)
  /\ resp = InvalidFormat
  /\ calls = <<>>

----------------------------------------------------------------------------
(* C10 *)

\* C10: an authenticated request whose body is not a JSON object carrying a
\* string contentType (invalid JSON, a JSON value that is no object, an
\* object without a string contentType) is answered 400 and evicts nothing.
C10_MalformedBodyRejected ==
  (Authenticated /\ ~HasStringType) => (resp.status = 400 /\ EvictedTags = {})

----------------------------------------------------------------------------
(* C11 *)

\* the request handled last passed the limiter, the authentication, the
\* parsing and the validation: the inner try block was entered
Accepted ==
  /\ Authenticated
  /\ HasStringType
  /\ MatchesPattern(req.body.ct.s, LOWER \cup UPPER)

\* one of the cache calls the request leads to threw
CacheCallThrew == fault \in 1..Len(CacheCalls(req.body.ct, req.body.id))

\* C11: an accepted request is answered 200 with revalidated true when every
\* eviction and the layout revalidation completed, and 500 with revalidated
\* false when one of them threw.
C11_RevalidatedOrFailed ==
  Accepted =>
    IF CacheCallThrew
    THEN resp.status = 500 /\ resp.revalidated = "false"
    ELSE /\ resp.status = 200 /\ resp.revalidated = "true"
         /\ calls = CacheCalls(req.body.ct, req.body.id)

\* the third eviction of a post notification threw: 500, revalidated false,
\* two tags evicted, the layout not revalidated
C11_Witness ==
  /\ Accepted
  /\ req.body = Post42
  /\ fault = 3
  /\ resp = FailedToRevalidate
  /\ EvictedTags = {"wordpress", "posts"}
  /\ ~RouteRevalidated

----------------------------------------------------------------------------
(* The data layer under every kind of backend reply *)

WpHost == <<"h","t","t","p",":","/","/","w","p">>

\* WORDPRESS_URL: unset, empty, slashes only, a URL, a URL with a slash
WordpressUrls ==
  {UrlUnset, Url(<<>>), Url(<<"/">>), Url(WpHost), Url(WpHost \o <<"/">>)}

Hello == Node(1, "hello", <<>>, "")
World == Node(2, "world", <<>>, "")
SomeData == Data(<<Hello, World>>, FALSE, Hello)

\* replies to a query: no connection, 500, 404 with an HTML body, 200 with
\* an unparsable body, the body null, errors with and without data, an
\* empty errors array, data, an empty connection, data null
QueryReplies ==
  {NetworkFailure, HttpReply(500, "value", -1, NoData), Unparsable(404),
   Unparsable(200), JsonNullReply, JsonErrors(1, NoData), JsonErrors(2, SomeData),
   JsonErrors(0, SomeData), Json(SomeData), Json(EmptyConnection), Json(NoData)}

FooterPage == JObject(<<Entry(<<"t","i","t","l","e">>, JStr(<<"F">>))>>)
Resource ==
  JObject(<<Entry(<<"i","d">>, JNum(42)),
            Entry(AcfKey, JObject(<<Entry(<<"h","e","r","o">>, JStr(<<"x">>))>>))>>)

\* replies of the document API: no connection, 500, unparsable, null, a value
RestReplies ==
  {NetworkFailure, HttpReply(500, "value", -1, JNull), Unparsable(200),
   Json(JNull), Json(Resource)}

\* the backend answering every query with q and the document API with d
BackendWith(q, d) ==
  [query |-> q, count |-> q, pages |-> <<q>>, taxonomies |-> q, types |-> q,
   document |-> d, terms |-> NoTerms,
   options |-> IF d = Json(Resource) THEN Json(FooterPage) ELSE d]

DataBackends == {BackendWith(q, d) : q \in QueryReplies, d \in RestReplies}

CtBook == <<"B","o","o","k">>

OperationNames ==
  {"graphqlFetch", "graphqlFetchGraceful", "getCustomTaxonomies", "getPostBySlug",
   "getPageBySlug", "getAllPostSlugs", "getAllPostsForSitemap", "getCustomPostTypes",
   "getACFOptionsPages", "getACFOptionsPageBySlug"}
  \cup DOMAIN GracefulListTags \cup StrictSingles \cup StrictLists \cup StrictSlugLists

\* every operation, the paginated ones on two pages, the ones taking a
\* content type with a well-formed and an ill-formed name
Operations ==
  {Operation(n, <<>>, 1, 9) : n \in OperationNames}
  \cup {Operation(n, <<>>, pg[1], pg[2]) :
          n \in {"getPostsPaginated"} \cup DOMAIN PaginatedWrappers,
          pg \in {<<1, 9>>, <<2, 1>>}}
  \cup {Operation("getCPTNodesPaginated", t, 2, 1) : t \in {CtCustom, CtBook}}
  \cup {Operation(n, t, 1, 9) :
          n \in {"getContentTypeBySlug", "getCPTNodeBySlug", "getAllCPTSlugs"},
          t \in {CtCustom, CtBook}}
  \cup {Operation("fetchContentExtras", t, 1, 9) : t \in {CtPost, CtCustom}}

InitData ==
  /\ WebhookIdle
  /\ wordpressUrl \in WordpressUrls
  /\ backend \in DataBackends
  /\ op = NoOperation
  /\ ret = NoResult
  /\ net = <<>>
  /\ taxonomyLabelCache = NullLabelCache
  /\ CachesEmpty
  /\ NoTasks

NextData == \E o \in Operations : Call(o)

SpecData == InitData /\ [][NextData]_vars

----------------------------------------------------------------------------
(* C12 *)

Called == op # NoOperation

Unconfigured == ~wordpressUrl.defined \/ StripTrailingSlashes(wordpressUrl.chars) = <<>>

\* an empty result: no items, an empty page of zero pages, nothing found,
\* no extras
EmptyResult(v) ==
  \/ v.kind = "list" /\ v.items = <<>>
  \/ v.kind = "page" /\ v.data = <<>> /\ v.total = 0 /\ v.totalPages = 0
  \/ v.kind = "undefined"
  \/ v.kind = "extras" /\ v.own = {}

\* the operations that are not exported read operations
Internal == {"graphqlFetch", "graphqlFetchGraceful"}

\* C12 as stated: while the backend base URL is unconfigured, every exported
\* read operation returns an empty result instead of failing.
C12_EveryOperationEmpty ==
  (Called /\ Unconfigured /\ op.name \notin Internal)
    => (~ret.threw /\ EmptyResult(ret.value))

\* the operations that throw without a base URL: the lookups and lists made
\* with the strict transport
StrictOperations == StrictSingles \cup StrictLists \cup StrictSlugLists

\* ^[a-z][a-z0-9_-]{0,49}$: a lowercase letter, then at most 49 lowercase
\* letters, digits, underscores or hyphens
ValidTypeName(chars) ==
  /\ chars # <<>>
  /\ Head(chars) \in LOWER
  /\ Len(Tail(chars)) <= 49
  /\ {chars[k] : k \in 2..Len(chars)} \subseteq LOWER \cup DIGITS \cup {"_", "-"}

\* the operations that convert the content type name before they look at
\* the configuration
ConvertsFirst == {"getCPTNodesPaginated", "getCPTNodeBySlug"}

\* C12 amended: while the backend base URL is unconfigured, the paginated,
\* list-all, search, post and page by-slug, bulk-slug, extras, schema
\* discovery and options operations return an empty result; the lookups by id,
\* the category, tag and author lookups by slug and the unpaginated posts-by
\* lists fail with "WordPress URL not configured"; the paginated and by-slug
\* custom-type operations fail on a name that does not match the pattern.
C12_GracefulEmptyStrictThrows ==
  (Called /\ Unconfigured /\ op.name \notin Internal) =>
    IF op.name \in StrictOperations
    THEN ret.threw /\ ret.error = "WordPress URL not configured"
    ELSE IF op.name \in ConvertsFirst /\ ~ValidTypeName(op.type)
    THEN ret.threw /\ ret.error = InvalidContentTypeName
    ELSE ~ret.threw /\ EmptyResult(ret.value)

\* getPostsPaginated returned the empty page without a base URL
C12_Witness ==
  /\ Unconfigured
  /\ wordpressUrl = Url(<<"/">>)
  /\ op.name = "getPostsPaginated"
  /\ ~ret.threw
  /\ ret.value = emptyResponse

----------------------------------------------------------------------------
(* C13 *)

\* C13: while the backend base URL is unconfigured, no data-layer operation
\* issues a network request; graphqlFetchGraceful returns its fallback and
\* getPostsPaginated returns {data: [], total: 0, totalPages: 0} without
\* throwing.
C13_NoRequestUnconfigured ==
  (Called /\ Unconfigured) =>
    /\ net = <<>>
    /\ op.name = "graphqlFetchGraceful" => (~ret.threw /\ ret.value = Fallback)
    /\ op.name = "getPostsPaginated" =>
         (~ret.threw /\ ret.value = [kind |-> "page", data |-> <<>>, total |-> 0,
                                     totalPages |-> 0])

\* graphqlFetchGraceful returned the fallback, with WORDPRESS_URL set to ""
\* and a backend that would have answered with data
C13_Witness ==
  /\ wordpressUrl = Url(<<>>)
  /\ backend.query = Json(SomeData)
  /\ op.name = "graphqlFetchGraceful"
  /\ ret.value = Fallback
  /\ net = <<>>

----------------------------------------------------------------------------
(* C14 *)

Configured_Url == ~Unconfigured

\* the ways a query fails: the connection, a status outside 200..299, a body
\* that is no JSON or no object, a non-empty errors array
QueryFailed(reply) ==
  \/ reply.kind = "network"
  \/ reply.status < 200 \/ reply.status > 299
  \/ reply.parse # "value"
  \/ reply.errors >= 1

\* C14: graphqlFetchGraceful never raises: for every failure of the
\* underlying query (network exception, non-2xx status, an envelope carrying
\* errors, an unparsable body) it returns the fallback, and on success it
\* returns the data the backend sent.
C14_GracefulNeverRaises ==
  (Called /\ op.name = "graphqlFetchGraceful") =>
    /\ ~ret.threw
    /\ (Configured_Url /\ QueryFailed(backend.query)) => ret.value = Fallback
    /\ (Configured_Url /\ ~QueryFailed(backend.query)) => ret.value = backend.query.data

\* a 200 response with an errors array and data beside it gave the fallback
C14_Witness ==
  /\ Configured_Url
  /\ op.name = "graphqlFetchGraceful"
  /\ backend.query = JsonErrors(2, SomeData)
  /\ ~ret.threw
  /\ ret.value = Fallback
  /\ Len(net) = 1

----------------------------------------------------------------------------
(* Pagination under every page number, page size and item count *)

\* the largest page number, page size and number of items tried
MaxPage == 4
MaxPerPage == 37
MaxTotal == 5

\* the default page size
DefaultPerPage == 9

\* page sizes: the small ones, the default, and one that gives three-digit
\* offsets
PageSizes == {1, 2, 3, DefaultPerPage, MaxPerPage}

\* n nodes
Nodes(n) == [k \in 1..n |-> Node(k, "item", <<>>, "")]

\* replies to the count query: n items, and the failures
CountReplies ==
  {Json(Data(Nodes(n), FALSE, NullNode)) : n \in 0..MaxTotal}
  \cup {NetworkFailure, JsonErrors(1, NoData), Json(NoData)}

\* replies to the page query: a page of two items, and a failure
PageReplies == {Json(Data(Nodes(2), TRUE, NullNode)), HttpReply(502, "throws", -1, NoData)}

PageBackends ==
  {[QuietBackend EXCEPT !.query = q, !.count = c] : q \in PageReplies, c \in CountReplies}

PageOperations ==
  {Operation(n, CtCustom, page, perPage) :
     n \in {"pageNumberToCursor", "getPostsPaginated", "getCPTNodesPaginated"},
     page \in 0..MaxPage, perPage \in PageSizes}

InitPages ==
  /\ WebhookIdle
  /\ wordpressUrl \in {UrlUnset, Url(WpHost)}
  /\ backend \in PageBackends
  /\ op = NoOperation
  /\ ret = NoResult
  /\ net = <<>>
  /\ taxonomyLabelCache = NullLabelCache
  /\ CachesEmpty
  /\ NoTasks

NextPages == \E o \in PageOperations : Call(o)

SpecPages == InitPages /\ [][NextPages]_vars

----------------------------------------------------------------------------
(* C15 *)

\* the place of a character in the base64 alphabet
Base64Index(c) == CHOOSE k \in 0..63 : Base64Alphabet[k + 1] = c

\* the bytes a base64 text stands for
RECURSIVE Base64Decode(_)
Base64Decode(chars) ==
  IF chars = <<>> THEN <<>>
  ELSE LET a == Base64Index(chars[1])
           b == Base64Index(chars[2])
           first == a * 4 + b \div 16
       IN IF chars[3] = "=" THEN <<first>>
          ELSE LET c == Base64Index(chars[3])
                   second == (b % 16) * 16 + c \div 4
               IN IF chars[4] = "=" THEN <<first, second>>
                  ELSE <<first, second, (c % 4) * 64 + Base64Index(chars[4])>>
                       \o Base64Decode(SubSeq(chars, 5, Len(chars)))

\* C15: pageNumberToCursor(1, pageSize) is null, and for page >= 2 and
\* pageSize > 0 the cursor is the base64 encoding of "arrayconnection:"
\* followed by the decimal of (page - 1) * pageSize - 1.
C15_CursorOfPage ==
  (Called /\ op.name = "pageNumberToCursor" /\ op.perPage > 0) =>
    /\ op.page = 1 => ret.value.isNull
    /\ op.page >= 2 =>
         /\ ~ret.value.isNull
         /\ Len(ret.value.chars) % 4 = 0
         /\ Base64Decode(ret.value.chars)
              = Bytes(ArrayConnection \o DecimalDigits((op.page - 1) * op.perPage - 1))

\* page 2 of size 9 starts after "arrayconnection:8", page 4 of size 37
\* after "arrayconnection:110", page 4 of size 38 after "arrayconnection:113"
C15_Witness ==
  /\ op.name = "pageNumberToCursor"
  /\ \/ /\ op.page = 2 /\ op.perPage = 9
        /\ Join(ret.value.chars) = "YXJyYXljb25uZWN0aW9uOjg="
     \/ /\ op.page = 4 /\ op.perPage = 37
        /\ Join(ret.value.chars) = "YXJyYXljb25uZWN0aW9uOjExMA=="

----------------------------------------------------------------------------
(* C16 *)

PaginatedCall ==
  /\ Called
  /\ op.name \in {"getPostsPaginated", "getCPTNodesPaginated"}
  /\ ~ret.threw

\* both queries answered with data
BothSucceeded ==
  /\ ~Unconfigured
  /\ ~QueryFailed(backend.query) /\ backend.query.data.present
  /\ ~QueryFailed(backend.count) /\ backend.count.data.present

\* C16: every result of getPostsPaginated and getCPTNodesPaginated with a
\* positive page size, on the success and on the failure paths, has
\* totalPages = ceil(total / pageSize): the least number of pages that hold
\* total items; totalPages is 0 exactly when total is 0.
C16_TotalPages ==
  (PaginatedCall /\ op.perPage > 0) =>
    /\ ret.value.totalPages * op.perPage >= ret.value.total
    /\ (ret.value.totalPages - 1) * op.perPage < ret.value.total
    /\ ret.value.totalPages = 0 <=> ret.value.total = 0
    /\ ret.value.total = IF BothSucceeded THEN Len(backend.count.data.nodes) ELSE 0

\* five items in pages of two make three pages, for the posts and for a
\* custom type
C16_Witness ==
  /\ PaginatedCall
  /\ BothSucceeded
  /\ op.perPage = 2
  /\ ret.value.total = 5
  /\ ret.value.totalPages = 3
  /\ Len(net) = 2

----------------------------------------------------------------------------
(* The extras under every kind of resource and term reply *)

KeyCustomField == <<"c","u","s","t","o","m","_","f","i","e","l","d">>
KeyEmptyField == <<"e","m","p","t","y","_","f","i","e","l","d">>
KeyFlags == <<"f","l","a","g","s">>
KeyGenre == <<"G","e","n","r","e">>
KeyCategories == <<"c","a","t","e","g","o","r","i","e","s">>
KeyMyKey == <<"m","y"," ","k","e","y">>
KeyOff == <<"o","f","f">>
KeyNone == <<"n","o","n","e">>
KeyList == <<"l","i","s","t">>
KeyZero == <<"z","e","r","o">>
KeyMixed == <<"m","i","x","e","d">>

Ids123 == JList(<<JNum(1), JNum(2), JNum(3)>>)

\* { custom_field: "x", empty_field: "", flags: [1, 2, 3] }
FlatResource ==
  JObject(<<Entry(KeyCustomField, JStr(<<"x">>)), Entry(KeyEmptyField, JStr(<<>>)),
            Entry(KeyFlags, Ids123)>>)

\* the same fields under the acf member, with every kind of empty value
AcfFields ==
  JObject(<<Entry(KeyCustomField, JStr(<<"x">>)), Entry(KeyEmptyField, JStr(<<>>)),
            Entry(KeyOff, JBool(FALSE)), Entry(KeyNone, JNull), Entry(KeyList, JList(<<>>)),
            Entry(KeyZero, JNum(0))>>)

\* a resource as the backend sends it: standard keys, acf, a taxonomy, keys
\* that look like one (an uppercase name, a name with a space, a list that
\* holds a string)
AcfResource ==
  JObject(<<Entry(<<"i","d">>, JNum(42)), Entry(KeyCategories, Ids123),
            Entry(AcfKey, AcfFields), Entry(KeyFlags, Ids123),
            Entry(KeyGenre, JList(<<JNum(7)>>)), Entry(KeyMyKey, Ids123),
            Entry(KeyMixed, JList(<<JNum(1), JStr(<<"a">>)>>))>>)

\* acf without a field left, acf as the empty array
EmptyAcfResource ==
  JObject(<<Entry(AcfKey, JObject(<<Entry(KeyEmptyField, JStr(<<>>))>>)),
            Entry(KeyCustomField, JStr(<<"x">>))>>)
ArrayAcfResource == JObject(<<Entry(AcfKey, JList(<<>>)), Entry(KeyFlags, Ids123)>>)

Resources == {FlatResource, AcfResource, EmptyAcfResource, ArrayAcfResource}

\* the 404 of the document API: an error object, with a term-id list in it
NotFound ==
  HttpReply(404, "value", -1,
            JObject(<<Entry(<<"c","o","d","e">>, JStr(<<"4","0","4">>)),
                      Entry(KeyFlags, Ids123)>>))

Term(id, name, slug) == [id |-> id, name |-> name, slug |-> slug]
TwoTerms == Json(JList(<<Term(1, "Red", "red"), Term(2, "Blue", "blue")>>))

\* replies to a term request: two terms, none, no connection, 404
TermReplies == {TwoTerms, Json(JList(<<>>)), NetworkFailure, HttpReply(404, "value", -1, JNull)}

TermBackends == [{"flags", "Genre"} -> TermReplies]

\* replies to taxonomy discovery: a label for flags, and a failure
TaxonomyReplies ==
  {Json(Data(<<Node(0, "", KeyFlags, "Flags"), Node(0, "", KeyCategories, "Categories")>>,
             FALSE, NullNode)),
   NetworkFailure}

ExtrasBackends ==
  {[QuietBackend EXCEPT !.query = Json(SomeData), !.document = Json(r), !.terms = t,
                        !.taxonomies = x] :
     r \in Resources, t \in TermBackends, x \in TaxonomyReplies}
  \cup {[QuietBackend EXCEPT !.query = Json(SomeData), !.document = d,
                             !.terms = [k \in {"flags", "Genre"} |-> TwoTerms]] :
          d \in RestReplies \cup {NotFound}}

ExtrasOperations ==
  {Operation("fetchContentExtras", t, 1, DefaultPerPage) : t \in {CtPost, CtCustom}}
  \cup {Operation("getPostBySlug", <<>>, 1, DefaultPerPage),
        Operation("getCPTNodeBySlug", CtCustom, 1, DefaultPerPage)}

InitExtras ==
  /\ WebhookIdle
  /\ wordpressUrl \in {UrlUnset, Url(WpHost)}
  /\ backend \in ExtrasBackends
  /\ op = NoOperation
  /\ ret = NoResult
  /\ net = <<>>
  /\ taxonomyLabelCache = NullLabelCache
  /\ CachesEmpty
  /\ NoTasks

NextExtras == \E o \in ExtrasOperations : Call(o)

SpecExtras == InitExtras /\ [][NextExtras]_vars

----------------------------------------------------------------------------
(* C17 *)

\* fetchContentExtras read a resource
ExtrasRead ==
  /\ Called /\ op.name = "fetchContentExtras"
  /\ ~Unconfigured
  /\ ~QueryFailed(backend.document)
  /\ backend.document.data.t = "object"

EmptyValues == {JNull, Undefined, JBool(FALSE), JStr(<<>>), JList(<<>>)}

\* the keys of the resource resolved as taxonomies: outside the reserved
\* set, holding a non-empty list of numbers, named like a taxonomy
TaxonomyKey(en) ==
  /\ Join(en.key) \notin WP_STANDARD_KEYS
  /\ en.value.t = "array" /\ en.value.s # <<>>
  /\ \A k \in 1..Len(en.value.s) : en.value.s[k].t = "number"
  /\ (Head(en.key) \in LOWER \cup UPPER
      /\ \A k \in 2..Len(en.key) : en.key[k] \in LOWER \cup UPPER \cup DIGITS \cup {"_", "-"})

\* the object made of the given entries, undefined when there is none
ObjectOrUndefined(entries) == IF entries = <<>> THEN Undefined ELSE JObject(entries)

ResolvedKeys ==
  SelectSeq(backend.document.data.s, LAMBDA en :
    /\ TaxonomyKey(en)
    /\ Join(en.key) \in DOMAIN backend.terms
    /\ ~QueryFailed(backend.terms[Join(en.key)])
    /\ backend.terms[Join(en.key)].data.s # <<>>)

----------------------------------------------------------------------------
(* C18 *)

\* the document request failed: no connection, a status outside 200..299,
\* a body that does not parse
DocumentFailed ==
  \/ backend.document.kind = "network"
  \/ backend.document.status < 200 \/ backend.document.status > 299
  \/ backend.document.parse = "throws"

\* C18: fetchContentExtras never raises; when the backend is unconfigured or
\* the document request fails (network exception, non-2xx status, unparsable
\* body) it returns {} and issues no term-resolution request.
C18_ExtrasNeverRaise ==
  (Called /\ op.name = "fetchContentExtras") =>
    /\ ~ret.threw
    /\ Unconfigured => (ret.value = NoExtras /\ net = <<>>)
    /\ (~Unconfigured /\ DocumentFailed) =>
         /\ ret.value = NoExtras
         /\ net = <<DocumentRequest(Join(op.type), 42)>>

\* a 404 carrying a term-id list gave {} after the one document request,
\* on a backend whose term requests would have resolved
C18_Witness ==
  /\ op.name = "fetchContentExtras"
  /\ ~Unconfigured
  /\ backend.document = NotFound
  /\ backend.terms["flags"] = TwoTerms
  /\ ret.value = NoExtras
  /\ Len(net) = 1
  /\ net[1].endpoint = "wp/v2/posts/42"

----------------------------------------------------------------------------
(* Schema discovery behind its caches, with renders, webhook requests and
   expiry in between *)

TypeNode(name) == Node(0, "", name, "")

\* a name WordPress accepts for a post type and the pattern does not
Ct3d == <<"3","d">>

\* replies to the content types query: built-in and custom types, a custom
\* type whose name starts with a digit, no connection, data null
TypeReplies ==
  {Json(Data(<<TypeNode(CtPost), TypeNode(CtCustom)>>, FALSE, NullNode)),
   Json(Data(<<TypeNode(CtCustom), TypeNode(Ct3d)>>, FALSE, NullNode)),
   NetworkFailure,
   Json(NoData)}

TypeBackends ==
  {[QuietBackend EXCEPT !.types = t, !.query = Json(SomeData), !.pages = <<Json(SomeData)>>] :
     t \in TypeReplies}

\* a webhook request that is accepted until the rate limit is reached
TypeRequests == {Request(Post42, Hdr(Hmac(Secret1, RawText(Post42))), NoHdr)}

TypeOperations ==
  {Operation(n, <<>>, 1, DefaultPerPage) : n \in {"getCustomPostTypes", "generateStaticParams", "sitemap"}}
  \cup {Operation(n, t, 1, DefaultPerPage) :
          n \in {"CPTArchivePage", "CPTDetailPage"}, t \in {CtCustom, Ct3d}}

InitTypes ==
  /\ now = 0
  /\ requestLog = <<>>
  /\ env = Hdr(Secret1)
  /\ req = Request(InvalidJson, NoHdr, NoHdr)
  /\ resp = NoResponse
  /\ calls = <<>>
  /\ admitted = <<>>
  /\ repeated = FALSE
  /\ handledAt = 0
  /\ fault = 0
  /\ wordpressUrl \in {UrlUnset, Url(WpHost)}
  /\ backend \in TypeBackends
  /\ op = NoOperation
  /\ ret = NoResult
  /\ net = <<>>
  /\ taxonomyLabelCache = NullLabelCache
  /\ CachesEmpty
  /\ NoTasks

NextTypes ==
  \/ \E o \in TypeOperations : Render(o)
  \/ NewRender
  \/ Expire
  \/ \E r \in TypeRequests : POST(r)

SpecTypes == InitTypes /\ [][NextTypes]_vars

----------------------------------------------------------------------------
(* C19 *)

\* the content types query is among the requests of the last call
TypesQueried ==
  \E k \in 1..Len(net) : net[k].tags = <<"wordpress", "content-types">>

\* C19 as stated: getCustomPostTypes is memoized for the process lifetime;
\* once the backend has been queried for the content types, nothing that
\* happens later (renders, webhook requests) leads to another such query.
C19_MemoizedForProcess == [][queries >= 1 => queries' = queries]_vars

\* the list getCustomPostTypes() returned holds no built-in content type
OnlyCustomTypes ==
  (Called /\ op.name = "getCustomPostTypes" /\ ~ret.threw)
    => \A k \in 1..Len(ret.value.items) :
         Join(ret.value.items[k].name) \notin BUILT_IN_CONTENT_TYPES

\* a call answered by cache() returns what the render memoized and sends
\* nothing
MemoAnswers ==
  (Called /\ op.name = "getCustomPostTypes" /\ served = "memo" /\ ~typesMemo.isNull)
    => /\ ret.threw = typesMemo.result.threw
       /\ ret.value = typesMemo.result.value
       /\ net = <<>>

\* the backend receives the content types query only from a call that finds
\* nothing memoized in its render and no entry in the fetch cache
QueriesOnlyUncached ==
  queries' # queries
    => /\ queries' = queries + 1
       /\ typesMemo.isNull
       /\ ~fetchCache.present
       /\ isConfigured(wordpressUrl)

\* an accepted webhook request leaves no content types entry behind
WebhookEvicts ==
  (resp'.status = 200 /\ requestLog' # requestLog) => ~fetchCache'.present

\* C19 amended: getCustomPostTypes returns only content types outside the
\* built-in set; its result is memoized for the render (cache()) and the
\* response to its query is kept in the fetch cache under the tags wordpress
\* and content-types: a call queries the backend only when the render has
\* nothing memoized and the fetch cache has no entry, and an accepted
\* webhook request evicts the entry.
C19_MemoizedPerRender ==
  /\ [](OnlyCustomTypes /\ MemoAnswers)
  /\ [][QueriesOnlyUncached /\ WebhookEvicts]_vars

\* the content types were queried a second time, after a webhook request
\* was accepted, and the call returned the custom types of the backend
C19_Witness ==
  /\ Called /\ op.name = "getCustomPostTypes"
  /\ queries = 2 /\ served = "backend" /\ TypesQueried
  /\ resp.status = 200 /\ calls # <<>>
  /\ ~ret.threw /\ ret.value.items # <<>>

----------------------------------------------------------------------------
(* C20 *)

\* C20 as stated: no route or sitemap fed the content types of schema
\* discovery fails with "Invalid content type name", whatever names the
\* backend reports.
C20_NeverFromBackendData ==
  (Called /\ op.name \in Routes)
    => ~(ret.threw /\ ret.error = InvalidContentTypeName)

----------------------------------------------------------------------------
(* The stages of a request: requests that fail at each stage, alone and
   together with a failure at a later stage *)

\* a well-formed body, an unparsable one, null, one without a contentType,
\* one with an ill-formed contentType; each signed, and each with no
\* authentication header
StageRequests ==
  UNION {{Request(b, Hdr(Hmac(Secret1, RawText(b))), NoHdr), Request(b, NoHdr, NoHdr)} :
           b \in {Post42, InvalidJson, Scalar(JNull), Obj(Undefined, JNum(42)),
                  Obj(JStr(CtSpace), JNum(42))}}
  \cup {Request(Post42, NoHdr, Hdr(Secret1))}

NextStages ==
  \/ \E r \in StageRequests : POST(r)
  \/ Tick(RATE_LIMIT_WINDOW_MS + 1)

SpecStages == Init /\ [][NextStages]_vars

----------------------------------------------------------------------------
(* C21 *)

\* the header the handler looks at carries the right value: the signature
\* when one is sent, the legacy secret otherwise
ValidAuth ==
  IF req.sig.present /\ req.sig.val # "" THEN SignatureMatches ELSE SecretMatches

\* the body is a JSON object with a well-formed string contentType
ValidBody == HasStringType /\ MatchesPattern(req.body.ct.s, LOWER \cup UPPER)

\* the log holds RATE_LIMIT_MAX requests not older than a window
WindowFull == Len(Prune(requestLog, now)) >= RATE_LIMIT_MAX

\* a step in which a request is handled: the response is the exit of the
\* first stage that fails, and cache calls are made only if none failed
StagesInOrder ==
  /\ resp' # NoResponse
  /\ resp'.status = 429 <=> WindowFull
  /\ ~WindowFull =>
       /\ resp' = ServerMisconfigured <=> ~Configured
       /\ Configured =>
            /\ resp' = Unauthorized <=> ~ValidAuth'
            /\ ValidAuth' =>
                 /\ resp'.status \in {400, 500} <=> ~ValidBody'
                 /\ resp'.status = 200 <=> ValidBody'
  /\ calls' # <<>> <=> (~WindowFull /\ Configured /\ ValidAuth' /\ ValidBody')
  /\ resp'.status = 200 <=> calls' # <<>>

\* C21: each request passes the stages rate-limit check, secret-configured
\* check, authentication, body parsing and validation, tag eviction,
\* response in this order: it gets one response, the one of the first stage
\* that fails, and a cache tag is evicted or a route revalidated only if
\* every earlier stage succeeded for that request.
C21_StagesInOrder == [][now' = now => StagesInOrder]_vars

\* an unsigned request with an unparsable body was answered 401, not 400:
\* authentication comes before parsing
C21_Witness ==
  /\ Handled /\ Configured
  /\ req = Request(InvalidJson, NoHdr, NoHdr)
  /\ resp = Unauthorized
  /\ calls = <<>>
  /\ requestLog # <<>>

----------------------------------------------------------------------------
(* A flood of requests that are all rejected, and a correctly signed
   request that arrives only once the window is full *)

\* requests rejected at each stage after the limiter: no authentication
\* header, a signature of another body, a signed unparsable body, a signed
\* body without a contentType
RejectedRequests ==
  {Request(Post42, NoHdr, NoHdr),
   Request(Post42, Hdr(Hmac(Secret1, RawText(Post43))), NoHdr),
   Request(InvalidJson, Hdr(Hmac(Secret1, RawText(InvalidJson))), NoHdr),
   Request(Obj(Undefined, JNum(42)), Hdr(Hmac(Secret1, RawText(Obj(Undefined, JNum(42))))), NoHdr)}

SignedPost == Request(Post42, Hdr(Hmac(Secret1, RawText(Post42))), NoHdr)

\* the sender of SignedPost waits until the window is full
LatePOST == WindowFull /\ POST(SignedPost)

NextFlood ==
  \/ \E r \in RejectedRequests : POST(r)
  \/ LatePOST
  \/ \E d \in Deltas : Tick(d)

SpecFlood == Init /\ [][NextFlood]_vars

----------------------------------------------------------------------------
(* C22 *)

\* a step in which a request is handled: a request answered 429 leaves the
\* log as it was; any other one, rejected or not, adds its arrival time to
\* the entries not older than a window
SlotAccounting ==
  IF resp'.status = 429
  THEN requestLog' = requestLog /\ WindowFull
  ELSE /\ requestLog' = Append(Prune(requestLog, now), now)
       /\ resp'.status \in {500, 401, 400} => Len(requestLog') = Len(Prune(requestLog, now)) + 1

\* C22: a request that passes the rate limiter and is then rejected (no
\* server secret, failed authentication, invalid body) consumes a slot of
\* the window; a request answered 429 consumes none and leaves the log
\* unchanged; so when rejected requests have filled the window, a correctly
\* signed request arriving in that window is answered 429.
C22_RejectedRequestsConsumeSlots ==
  /\ [][now' = now => SlotAccounting]_vars
  /\ [](Len(requestLog) <= RATE_LIMIT_MAX)
  /\ []((JustHandled /\ req = SignedPost) => (resp = TooManyRequests /\ calls = <<>>))

\* thirty rejected requests within a window, then the signed request: 429
C22_Witness ==
  /\ JustHandled /\ Configured
  /\ req = SignedPost /\ SignatureMatches
  /\ resp = TooManyRequests
  /\ Len(requestLog) = RATE_LIMIT_MAX
  /\ requestLog[RATE_LIMIT_MAX] - requestLog[1] < RATE_LIMIT_WINDOW_MS

----------------------------------------------------------------------------
(* Calls of the data layer with webhook requests in between *)

\* a backend on which every kind of request is answered with data
FullBackend ==
  [query |-> Json(SomeData), count |-> Json(SomeData), pages |-> <<Json(SomeData)>>,
   document |-> Json(AcfResource),
   taxonomies |-> Json(Data(<<Node(0, "", KeyFlags, "Flags")>>, FALSE, NullNode)),
   terms |-> [k \in {"flags", "Genre"} |-> TwoTerms],
   types |-> Json(Data(<<TypeNode(CtCustom)>>, FALSE, NullNode)),
   options |-> Json(JList(<<FooterPage>>))]

\* a signed request for a built-in type, one for a custom type, one for a
\* type named like no content of the site, and an unsigned one
TagRequests ==
  {Request(b, Hdr(Hmac(Secret1, RawText(b))), NoHdr) :
     b \in {Post42, Obj(JStr(CtCustom), Undefined), Obj(JStr(CtUpper), JNum(42))}}
  \cup {Request(Post42, NoHdr, NoHdr)}

InitTags ==
  /\ now = 0
  /\ requestLog = <<>>
  /\ env = Hdr(Secret1)
  /\ req = Request(InvalidJson, NoHdr, NoHdr)
  /\ resp = NoResponse
  /\ calls = <<>>
  /\ admitted = <<>>
  /\ repeated = FALSE
  /\ handledAt = 0
  /\ fault = 0
  /\ wordpressUrl = Url(WpHost)
  /\ backend = FullBackend
  /\ op = NoOperation
  /\ ret = NoResult
  /\ net = <<>>
  /\ taxonomyLabelCache = NullLabelCache
  /\ CachesEmpty
  /\ NoTasks

NextTags ==
  \/ \E o \in Operations : Call(o)
  \/ \E r \in TagRequests : POST(r)

SpecTags == InitTags /\ [][NextTags]_vars

----------------------------------------------------------------------------
(* C23 *)

\* the fetch was issued with the tag among its cache tags
HasTag(fetched, tag) == \E j \in 1..Len(fetched.tags) : fetched.tags[j] = tag

\* a request is answered 200: whatever the last call fetched and the fetch
\* cache stored under the tags of the fetch is evicted by the cache calls
EvictsAllFetched ==
  (requestLog' # requestLog /\ resp'.status = 200)
    => \A k \in 1..Len(net) :
         Evict(CacheEntry(net[k].tags, backend.query), calls') = NoEntry

\* C23: every fetch the data layer issues (query API, document API, term
\* resolution, options endpoints) carries the cache tag wordpress, so every
\* accepted webhook request, whatever its contentType, evicts every cached
\* fetch result.
C23_UmbrellaTagOnEveryFetch ==
  /\ [](\A k \in 1..Len(net) : HasTag(net[k], "wordpress"))
  /\ [][EvictsAllFetched]_vars

\* a request for a type named like no content of the site was answered 200
\* after fetchContentExtras had fetched a document, the taxonomies and the
\* terms of a taxonomy
C23_Witness ==
  /\ Called /\ op.name = "fetchContentExtras"
  /\ \E k \in 1..Len(net) : net[k].tags = <<"wordpress", "taxonomy-flags">>
  /\ \E k \in 1..Len(net) : net[k].tags = <<"wordpress", "rest-post-42">>
  /\ resp.status = 200 /\ req.body.ct = JStr(CtUpper)
  /\ "wordpress" \in EvictedTags

----------------------------------------------------------------------------
(* Concurrent callers of getTaxonomyLabelMap.  A call runs without
   interruption from one await to the next: it starts, and where it finds
   the cache unset it sends the discovery query and is suspended until the
   answer arrives *)

TwoTaxonomies ==
  Json(Data(<<Node(0, "", KeyFlags, "Flags"), Node(0, "", KeyGenre, "Genre")>>,
            FALSE, NullNode))

\* how the backend may answer the discovery query: with the taxonomies, with
\* a data member that is null, or not at all
DiscoveryReplies == {TwoTaxonomies, Json(NoData), NetworkFailure}

\* a frame of getTaxonomyLabelMap: suspended at its await, or settled
LabelFrame(pc, queried, answer, out) ==
  [fn |-> "getTaxonomyLabelMap", pc |-> pc, queried |-> queried, answer |-> answer,
   out |-> out]

\* the call starts: it returns the cache, or sends the query and awaits
StartLabels(i, m) ==
  /\ frames[i].pc = "idle"
  /\ IF ~taxonomyLabelCache.isNull
     THEN /\ frames' = [frames EXCEPT ![i] = LabelFrame("done", FALSE, NetworkFailure, m.res)]
          /\ UNCHANGED inFlight
     ELSE /\ frames' = [frames EXCEPT ![i] = LabelFrame("awaiting", TRUE, NetworkFailure, m.res)]
          /\ inFlight' = inFlight \cup {[caller |-> i, slot |-> "taxonomies",
                                         request |-> m.res.net[1]]}
  /\ UNCHANGED <<taxonomyLabelCache, assigns>>
  /\ UNCHANGED <<wordpressUrl, backend, op, ret, net>>
  /\ UNCHANGED webhookVars
  /\ UNCHANGED cacheVars

EnterLabels(i) ==
  StartLabels(i, getTaxonomyLabelMap(wordpressUrl, backend.taxonomies, taxonomyLabelCache))

\* the answer arrives: the call goes on from its await, where the test of
\* the cache lies behind it
ResumeLabels(i, m) ==
  /\ frames[i].pc = "awaiting"
  /\ frames' = [frames EXCEPT ![i] = LabelFrame("done", TRUE, backend.taxonomies, m.res)]
  /\ inFlight' = {f \in inFlight : f.caller # i}
  /\ taxonomyLabelCache' = IF m.res.threw THEN taxonomyLabelCache ELSE m.cache
  /\ assigns' = IF m.res.threw THEN assigns ELSE assigns + 1
  /\ UNCHANGED <<wordpressUrl, backend, op, ret, net>>
  /\ UNCHANGED webhookVars
  /\ UNCHANGED cacheVars

AnswerLabels(i) ==
  ResumeLabels(i, getTaxonomyLabelMap(wordpressUrl, backend.taxonomies, NullLabelCache))

\* the backend goes down, recovers, or answers differently from now on
Flap(reply) ==
  /\ reply # backend.taxonomies
  /\ backend' = [backend EXCEPT !.taxonomies = reply]
  /\ UNCHANGED <<wordpressUrl, op, ret, net, taxonomyLabelCache>>
  /\ UNCHANGED webhookVars
  /\ UNCHANGED cacheVars
  /\ UNCHANGED taskVars

InitLabels ==
  /\ now = 0
  /\ requestLog = <<>>
  /\ env = NoHdr
  /\ req = Request(InvalidJson, NoHdr, NoHdr)
  /\ resp = NoResponse
  /\ calls = <<>>
  /\ admitted = <<>>
  /\ repeated = FALSE
  /\ handledAt = 0
  /\ fault = 0
  /\ wordpressUrl = Url(WpHost)
  /\ backend \in {[QuietBackend EXCEPT !.taxonomies = r] : r \in DiscoveryReplies}
  /\ op = NoOperation
  /\ ret = NoResult
  /\ net = <<>>
  /\ taxonomyLabelCache = NullLabelCache
  /\ CachesEmpty
  /\ NoTasks

NextLabels ==
  \/ \E i \in Callers : EnterLabels(i)
  \/ \E i \in Callers : AnswerLabels(i)
  \/ \E r \in DiscoveryReplies : Flap(r)

SpecLabels == InitLabels /\ [][NextLabels]_vars

\* the map getTaxonomyLabelMap builds from an answer of the backend
MapOf(reply) == LabelCache(getCustomTaxonomies(wordpressUrl, reply).value.items)

\* the replies from which a map is built at all
Mappable == {r \in DiscoveryReplies : ~getCustomTaxonomies(wordpressUrl, r).threw}

Settled(i) == frames[i].pc = "done"
Obtained(i) == Settled(i) /\ ~frames[i].out.threw
Assigned(i) == Obtained(i) /\ frames[i].queried

----------------------------------------------------------------------------
(* C24 *)

\* C24 as stated: the cache is write-once-then-read: under any interleaving
\* of concurrent first callers every caller obtains a map with the same
\* contents, no caller observes a partially filled map, and the variable is
\* assigned at most once per process.
C24_WriteOnce ==
  /\ assigns <= 1
  /\ \A i, j \in Callers :
       (Obtained(i) /\ Obtained(j)) => frames[i].out.value = frames[j].out.value
  /\ \A i \in Callers :
       Obtained(i) => \E r \in Mappable : frames[i].out.value = MapOf(r)

\* C24, amended: the cache is assigned once by every caller that found it
\* unset, when the answer to its own discovery arrives, so as often as there
\* were concurrent first callers; the variable and every caller hold a
\* complete map, never a partially filled one; a caller that found the cache
\* set obtains a map one of those callers assigned, and callers whose
\* discoveries were answered alike obtain maps with the same contents.
C24_AssignedByEveryFirstCaller ==
  /\ assigns = Cardinality({i \in Callers : Assigned(i)})
  /\ taxonomyLabelCache.isNull = (assigns = 0)
  /\ ~taxonomyLabelCache.isNull => \E r \in Mappable : taxonomyLabelCache = MapOf(r)
  /\ \A i \in Callers :
       /\ Assigned(i) => frames[i].out.value = MapOf(frames[i].answer)
       /\ (Obtained(i) /\ ~frames[i].queried) =>
            \E j \in Callers : Assigned(j) /\ frames[i].out.value = frames[j].out.value
  /\ \A i, j \in Callers :
       (Assigned(i) /\ Assigned(j) /\ frames[i].answer = frames[j].answer)
         => frames[i].out.value = frames[j].out.value

\* two callers found the cache unset and both assigned it, with the same map
C24_Witness ==
  /\ assigns = 2
  /\ Assigned(1) /\ Assigned(2)
  /\ frames[1].answer = TwoTaxonomies /\ frames[2].answer = TwoTaxonomies
  /\ Len(taxonomyLabelCache.entries) = 2
  /\ frames[1].out.value = frames[2].out.value

----------------------------------------------------------------------------
(* C25 *)

\* a discovery was answered with the taxonomies
Discovered == \E i \in Callers : Assigned(i) /\ frames[i].answer = TwoTaxonomies

\* the call starts while no discovery has succeeded: it sends the query
QueriesAgain ==
  \A i \in Callers :
    (frames[i].pc = "idle" /\ frames'[i].pc # "idle" /\ ~Discovered)
      => frames'[i].pc = "awaiting"

\* C25: the cache is populated only by a successful discovery: if the
\* discovery query fails or the backend is unreachable, the cache stays
\* unpopulated and a later call to getTaxonomyLabelMap queries the backend
\* again.
C25_PopulatedOnlyBySuccess ==
  /\ [](~Discovered => taxonomyLabelCache.isNull)
  /\ [][QueriesAgain]_vars

----------------------------------------------------------------------------
(* Concurrent calls of the paginated operations.  Promise.all starts the
   page query and the count query together; it is fulfilled when both are,
   and rejected as soon as one is *)

PairSlots == {"page", "count"}
PairNames == {"getPostsPaginated", "getCPTNodesPaginated"}
PairOperations == {Operation(n, CtCustom, 2, 1) : n \in PairNames}

\* a frame of a paginated operation: the answers that have arrived, those
\* that had arrived when it returned, and what it returned
PairFrame(o, pc, arrived, sawBoth, out) ==
  [fn |-> o.name, pc |-> pc, o |-> o, arrived |-> arrived, sawBoth |-> sawBoth,
   out |-> out]

\* the reply the backend gives to the query of a slot
SlotReply(slot) == IF slot = "page" THEN backend.query ELSE backend.count
SlotFails(slot) == graphqlFetch(wordpressUrl, SlotReply(slot), NoVariables, <<>>).threw

\* the call starts and is suspended at await Promise.all([...]) with both
\* queries sent
StartPair(i, o, r) ==
  /\ frames[i].pc = "idle"
  /\ frames' = [frames EXCEPT ![i] = PairFrame(o, "awaiting", {}, FALSE, NoResult)]
  /\ inFlight' = inFlight \cup {[caller |-> i, slot |-> "page", request |-> r.net[1]],
                                [caller |-> i, slot |-> "count", request |-> r.net[2]]}
  /\ UNCHANGED assigns
  /\ UNCHANGED dataVars
  /\ UNCHANGED webhookVars
  /\ UNCHANGED cacheVars

EnterPair(i, o) == StartPair(i, o, Exec(o, wordpressUrl, backend, NullLabelCache).res)

\* the answer to one of the two queries arrives: the call goes on when this
\* one failed or both are there, and an answer to a call that has returned
\* is dropped
SettlePair(i, slot, r) ==
  /\ frames[i].fn \in PairNames
  /\ \E f \in inFlight : f.caller = i /\ f.slot = slot
  /\ inFlight' = {f \in inFlight : ~(f.caller = i /\ f.slot = slot)}
  /\ frames' =
       [frames EXCEPT ![i] =
          IF frames[i].pc = "awaiting"
             /\ (SlotFails(slot) \/ frames[i].arrived \cup {slot} = PairSlots)
          THEN PairFrame(frames[i].o, "done", frames[i].arrived \cup {slot},
                         frames[i].arrived \cup {slot} = PairSlots,
                         [threw |-> r.threw, error |-> r.error, value |-> r.value])
          ELSE [frames[i] EXCEPT !.arrived = frames[i].arrived \cup {slot}]]
  /\ UNCHANGED assigns
  /\ UNCHANGED dataVars
  /\ UNCHANGED webhookVars
  /\ UNCHANGED cacheVars

AnswerPair(i, slot) ==
  SettlePair(i, slot, Exec(frames[i].o, wordpressUrl, backend, NullLabelCache).res)

InitPair ==
  /\ WebhookIdle
  /\ wordpressUrl = Url(WpHost)
  /\ backend \in PageBackends
  /\ op = NoOperation
  /\ ret = NoResult
  /\ net = <<>>
  /\ taxonomyLabelCache = NullLabelCache
  /\ CachesEmpty
  /\ NoTasks

NextPair ==
  \/ \E i \in Callers, o \in PairOperations : EnterPair(i, o)
  \/ \E i \in Callers, slot \in PairSlots : AnswerPair(i, slot)

SpecPair == InitPair /\ [][NextPair]_vars

----------------------------------------------------------------------------
(* C26 *)

Unanswered(i) == {f.slot : f \in {g \in inFlight : g.caller = i}}
PairSettled(i) == frames[i].fn \in PairNames /\ frames[i].pc = "done"

\* both queries are on their way when the call is suspended
SentTogether ==
  \A i \in Callers :
    (frames[i].pc = "idle" /\ frames'[i].pc # "idle")
      => /\ {f.slot : f \in {g \in inFlight' : g.caller = i}} = PairSlots
         /\ \A f \in inFlight' : f.caller = i => HasTag(f.request, "wordpress")

\* a result holds the items of the page answer and the total of the count
\* answer, both of them successful, or it is the empty page
NeverMixed ==
  \A i \in Callers :
    PairSettled(i) =>
      /\ ~frames[i].out.threw
      /\ \/ frames[i].out.value = emptyResponse
         \/ /\ ~SlotFails("page") /\ ~SlotFails("count")
            /\ frames[i].out.value.data = Transformed(backend.query.data.nodes)
            /\ frames[i].out.value.total = Len(backend.count.data.nodes)
      /\ (SlotFails("page") \/ SlotFails("count")) => frames[i].out.value = emptyResponse

\* C26 as stated: the page query and the count query are issued
\* concurrently, a result is returned only after both have completed, and no
\* result combines the items of a successful page query with a total from a
\* failed count query, or the reverse.
C26_ReturnsAfterBoth ==
  /\ [][SentTogether]_vars
  /\ [](\A i \in Callers : PairSettled(i) => (Unanswered(i) = {} /\ frames[i].sawBoth))
  /\ []NeverMixed

\* C26, amended: the two queries are issued concurrently; a result with items
\* is returned only after both have completed successfully, and the empty
\* page is returned as soon as either query fails, without waiting for the
\* answer to the other; no result mixes the items of one with the total of a
\* failed other.
C26_ReturnsAfterBothOrFirstFailure ==
  /\ [][SentTogether]_vars
  /\ []NeverMixed
  /\ [](\A i \in Callers :
          PairSettled(i) =>
            /\ frames[i].out.value # emptyResponse =>
                 (frames[i].sawBoth /\ Unanswered(i) = {})
            /\ ~frames[i].sawBoth =>
                 \E slot \in frames[i].arrived : SlotFails(slot))
  /\ [][\A i \in Callers, slot \in PairSlots :
          (frames[i].pc = "awaiting" /\ slot \in Unanswered(i) /\ SlotFails(slot)
           /\ slot \notin {f.slot : f \in {g \in inFlight' : g.caller = i}})
            => (frames'[i].pc = "done" /\ frames'[i].out.value = emptyResponse)]_vars

\* the page query fails: one call returned the empty page while its count
\* query was still unanswered, the other after both answers had arrived
C26_Witness ==
  \E i, j \in Callers :
    /\ PairSettled(i) /\ frames[i].sawBoth /\ Unanswered(i) = {}
    /\ PairSettled(j) /\ Unanswered(j) = {"count"} /\ frames[j].arrived = {"page"}
    /\ frames[j].out.value = emptyResponse
    /\ ~SlotFails("count")

----------------------------------------------------------------------------
(* Calls of the bulk operations, one await at a time *)

\* the pages a backend can hold
MaxBulkPages == 3

BulkNames == {"getAllPostSlugs", "getAllPostsForSitemap", "getAllCPTSlugs"}
BulkOperations == {Operation(n, CtCustom, 1, 9) : n \in BulkNames}

\* answers to a page request: a page with a next one, a last page, a failure
MorePage == Json(Data(<<Hello, World>>, TRUE, NullNode))
LastPage == Json(Data(<<Node(3, "last", <<>>, "")>>, FALSE, NullNode))
BulkReplies == {MorePage, LastPage, HttpReply(502, "throws", -1, NoData)}

RECURSIVE SeqsUpTo(_, _)
SeqsUpTo(S, n) ==
  IF n = 0 THEN {<<>>}
  ELSE SeqsUpTo(S, n - 1)
       \cup UNION {{Append(q, x) : x \in S} : q \in {p \in SeqsUpTo(S, n - 1) : Len(p) = n - 1}}

BulkBackends ==
  {[QuietBackend EXCEPT !.pages = ps] : ps \in SeqsUpTo(BulkReplies, MaxBulkPages) \ {<<>>}}

\* the contentType variable of the query, for getAllCPTSlugs
RestOf(o) == IF o.name = "getAllCPTSlugs" THEN toContentTypeEnum(o.type).value ELSE ""

\* the answer to the k-th page request
PageReplyAt(k) == IF k <= Len(backend.pages) THEN backend.pages[k] ELSE NetworkFailure

\* a frame of a bulk operation suspended at the await of turn k, or settled:
\* the cursor its request carries, allSlugs so far, what it returned
BulkFrame(o, pc, k, cursor, acc, out) ==
  [fn |-> o.name, pc |-> pc, o |-> o, k |-> k, cursor |-> cursor, acc |-> acc,
   out |-> out]

InFlightOf(i) == {g \in inFlight : g.caller = i}

\* the call starts: the first request, without a cursor
EnterBulk(i, o) ==
  /\ frames[i].pc = "idle"
  /\ frames' = [frames EXCEPT ![i] = BulkFrame(o, "awaiting", 1, NullCursor, <<>>, NoResult)]
  /\ inFlight' = inFlight \cup {[caller |-> i, slot |-> ToString(1),
                                 request |-> BulkRequest(NullCursor, RestOf(o))]}
  /\ UNCHANGED assigns
  /\ UNCHANGED dataVars
  /\ UNCHANGED webhookVars
  /\ UNCHANGED cacheVars

\* the answer to the request in flight arrives and the loop takes its turn
TurnBulk(i, st) ==
  /\ frames[i].fn \in BulkNames
  /\ frames[i].pc = "awaiting"
  /\ frames' =
       [frames EXCEPT ![i] =
          IF st.done
          THEN BulkFrame(frames[i].o, "done", frames[i].k, frames[i].cursor, st.acc,
                         [threw |-> FALSE, error |-> "", value |-> st.out])
          ELSE BulkFrame(frames[i].o, "awaiting", frames[i].k + 1, st.cursor, st.acc,
                         NoResult)]
  /\ inFlight' =
       (inFlight \ InFlightOf(i))
       \cup (IF st.done THEN {}
             ELSE {[caller |-> i, slot |-> ToString(frames[i].k + 1),
                    request |-> BulkRequest(st.cursor, RestOf(frames[i].o))]})
  /\ UNCHANGED assigns
  /\ UNCHANGED dataVars
  /\ UNCHANGED webhookVars
  /\ UNCHANGED cacheVars

AnswerBulk(i) ==
  TurnBulk(i, BulkStep(wordpressUrl, PageReplyAt(frames[i].k), frames[i].cursor,
                        RestOf(frames[i].o), frames[i].acc))

InitBulk ==
  /\ WebhookIdle
  /\ wordpressUrl = Url(WpHost)
  /\ backend \in BulkBackends
  /\ op = NoOperation
  /\ ret = NoResult
  /\ net = <<>>
  /\ taxonomyLabelCache = NullLabelCache
  /\ CachesEmpty
  /\ NoTasks

NextBulk ==
  \/ \E i \in Callers, o \in BulkOperations : EnterBulk(i, o)
  \/ \E i \in Callers : AnswerBulk(i)

SpecBulk == InitBulk /\ [][NextBulk]_vars

\* the k-th page request is answered with a page
PageOk(k) ==
  /\ k <= Len(backend.pages)
  /\ ~graphqlFetch(wordpressUrl, backend.pages[k], NoVariables, <<>>).threw
  /\ backend.pages[k].data.present
HasMore(k) == backend.pages[k].data.hasNextPage

\* the items of the first k pages, in the order of the pages
RECURSIVE FirstPages(_)
FirstPages(k) ==
  IF k = 0 THEN <<>>
  ELSE FirstPages(k - 1)
       \o [j \in 1..Len(backend.pages[k].data.nodes) |->
             [slug |-> backend.pages[k].data.nodes[j].slug]]

BulkRunning(i) == frames[i].fn \in BulkNames /\ frames[i].pc = "awaiting"
BulkSettled(i) == frames[i].fn \in BulkNames /\ frames[i].pc = "done"

----------------------------------------------------------------------------
(* C27 *)

\* C27: bulk enumeration pages strictly sequentially: the request for page
\* k+1 is issued only after the response for page k has arrived and carries
\* that response's endCursor, at most one request is in flight at any time,
\* the enumeration stops at the first response with hasNextPage = false, and
\* the result is the concatenation of the pages in request order.
C27_PagesSequentially ==
  \A i \in Callers :
    /\ BulkRunning(i) =>
         /\ InFlightOf(i) =
              {[caller |-> i, slot |-> ToString(frames[i].k),
                request |-> BulkRequest(IF frames[i].k = 1 THEN NullCursor
                                        ELSE EndCursor(backend.pages[frames[i].k - 1].data),
                                        RestOf(frames[i].o))]}
         /\ \A j \in 1..(frames[i].k - 1) : PageOk(j) /\ HasMore(j)
         /\ frames[i].acc = FirstPages(frames[i].k - 1)
    /\ BulkSettled(i) =>
         /\ InFlightOf(i) = {}
         /\ \A j \in 1..(frames[i].k - 1) : PageOk(j) /\ HasMore(j)
         /\ PageOk(frames[i].k) =>
              /\ ~HasMore(frames[i].k)
              /\ frames[i].out.value = List(FirstPages(frames[i].k))
         /\ frames[i].out.value
              = Exec(frames[i].o, wordpressUrl, backend, NullLabelCache).res.value

\* an enumeration has returned the items of three pages in order, another
\* one awaits its third page with the cursor of the second
C27_Witness ==
  \E i, j \in Callers :
    /\ BulkSettled(i) /\ frames[i].k = 3 /\ Len(frames[i].out.value.items) = 5
    /\ frames[i].out.value.items[5].slug = "last"
    /\ BulkRunning(j) /\ frames[j].k = 3
    /\ frames[j].cursor = EndCursor(backend.pages[2].data)
    /\ ~frames[j].cursor.isNull

----------------------------------------------------------------------------
(* C28 *)

\* a settled enumeration does nothing more
StaysSettled ==
  \A i \in Callers :
    BulkSettled(i) => (frames'[i] = frames[i] /\ {g \in inFlight' : g.caller = i} = {})

\* C28: bulk enumeration is all-or-nothing: if a page request fails after
\* earlier pages succeeded, the operation returns the empty list, never the
\* items accumulated so far, and requests no further page.
C28_AllOrNothing ==
  /\ [](\A i \in Callers :
          (BulkSettled(i) /\ ~PageOk(frames[i].k))
            => (frames[i].out.value = List(<<>>) /\ InFlightOf(i) = {}))
  /\ [][StaysSettled]_vars

\* the third page request failed after two pages had been collected
C28_Witness ==
  \E i \in Callers :
    /\ BulkSettled(i) /\ frames[i].k = 3 /\ ~PageOk(3)
    /\ Len(frames[i].acc) = 4
    /\ frames[i].out.value = List(<<>>)
    /\ Len(backend.pages) = 3

----------------------------------------------------------------------------
(* The extras of a resource whose keys try the taxonomy key pattern *)

\* the longest key the pattern accepts, and the shortest it rejects for its
\* length
KeyFifty == [k \in 1..50 |-> "a"]
KeyFiftyOne == [k \in 1..51 |-> "a"]
KeyDigit == <<"1","s","t">>

KeyResource ==
  JObject(<<Entry(KeyCategories, Ids123), Entry(AcfKey, AcfFields),
            Entry(KeyFlags, Ids123), Entry(KeyFiftyOne, Ids123),
            Entry(KeyGenre, JList(<<JNum(7)>>)), Entry(KeyMyKey, Ids123),
            Entry(KeyDigit, Ids123), Entry(KeyFifty, Ids123),
            Entry(KeyMixed, JList(<<JNum(1), JStr(<<"a">>)>>)),
            Entry(KeyList, JList(<<>>))>>)

KeyBackends ==
  {[QuietBackend EXCEPT !.query = Json(SomeData), !.document = Json(r), !.terms = t,
                        !.taxonomies = x] :
     r \in {KeyResource, AcfResource},
     t \in [{"flags", "Genre"} -> TermReplies \cup {Unparsable(200)}],
     x \in TaxonomyReplies}

InitKeys ==
  /\ WebhookIdle
  /\ wordpressUrl = Url(WpHost)
  /\ backend \in KeyBackends
  /\ op = NoOperation
  /\ ret = NoResult
  /\ net = <<>>
  /\ taxonomyLabelCache = NullLabelCache
  /\ CachesEmpty
  /\ NoTasks

NextKeys == \E o \in ExtrasOperations : Call(o)

SpecKeys == InitKeys /\ [][NextKeys]_vars

\* the request is neither the document request nor a query
IsTermRequest(f) == f.endpoint # "graphql" /\ f # DocumentRequest(Join(op.type), 42)
TermRequestsSent == SelectSeq(net, IsTermRequest)

\* a key outside the reserved set that holds a non-empty list of numbers and
\* is made of at most 50 characters, one of the letters first, then letters,
\* digits, _ and -
ListedKey(en, letters) ==
  /\ Join(en.key) \notin WP_STANDARD_KEYS
  /\ en.value.t = "array" /\ en.value.s # <<>>
  /\ \A k \in 1..Len(en.value.s) : en.value.s[k].t = "number"
  /\ Len(en.key) \in 1..50
  /\ en.key[1] \in letters
  /\ \A k \in 2..Len(en.key) : en.key[k] \in letters \cup DIGITS \cup {"_", "-"}

AnyCaseKey(en) == ListedKey(en, LOWER \cup UPPER)
Discovered50 == SelectSeq(backend.document.data.s, AnyCaseKey)

----------------------------------------------------------------------------
(* C29 *)

----------------------------------------------------------------------------
(* C30 *)

\* the term request for the key resolves to at least one term
Resolves(en) ==
  LET reply == TermsReply(backend, en.key)
  IN /\ reply.kind = "response" /\ reply.status \in 200..299 /\ reply.parse = "value"
     /\ reply.data.t = "array" /\ reply.data.s # <<>>

\* C30: a partial failure does not abort fetchContentExtras: when the term
\* request of one discovered taxonomy fails or returns no terms, that
\* taxonomy is omitted while every other discovered taxonomy is still
\* requested and returned together with the custom fields; customTaxonomies
\* is undefined unless at least one taxonomy resolved, and every returned
\* taxonomy has at least one term.
C30_PartialFailureOmitsOnly ==
  ExtrasRead =>
    /\ ~ret.threw /\ ret.value.own = {"acf", "customTaxonomies"}
    /\ ret.value.acf = filterACF(Member(backend.document.data.s, AcfKey))
    /\ \A k \in 1..Len(Discovered50) :
         \E j \in 1..Len(net) : net[j] = TermsRequest(Discovered50[k].key)
    /\ LET good == SelectSeq(Discovered50, Resolves)
       IN IF good = <<>> THEN ret.value.customTaxonomies = Undefined
          ELSE /\ ret.value.customTaxonomies.t = "array"
               /\ Len(ret.value.customTaxonomies.s) = Len(good)
               /\ \A k \in 1..Len(good) :
                    /\ ret.value.customTaxonomies.s[k].taxonomy = Join(good[k].key)
                    /\ ret.value.customTaxonomies.s[k].terms # <<>>

\* the term request for flags met no connection and the one for the key of
\* 50 characters a 404: Genre alone is returned, after all three requests,
\* together with the fields
C30_Witness ==
  /\ ExtrasRead
  /\ backend.document = Json(KeyResource)
  /\ backend.terms["flags"] = NetworkFailure
  /\ backend.terms["Genre"] = TwoTerms
  /\ Len(TermRequestsSent) = 3
  /\ Len(ret.value.customTaxonomies.s) = 1
  /\ ret.value.customTaxonomies.s[1].taxonomy = "Genre"
  /\ ret.value.acf.t = "object"

====
